---- MODULE Spec2Model ----
(***************************************************************************)
(* Model of the YAML -> Inf scene converters of jysh1214/inf:              *)
(*   scripts/yaml_convert.py  YAMLValidator, GraphvizLayoutEngine,         *)
(*                            YAMLToInfConverter, convert_single_file      *)
(*   tools/converter.py       create_inf_connection, create_inf_group,     *)
(*                            convert_yaml_to_inf                          *)
(*                                                                         *)
(* Representation of YAML values                                           *)
(*   - a str is the sequence of the lengths of its lines (text.split('\n') *)
(*     of a text made of non-blank characters and newlines), so <<3>> is   *)
(*     "xxx" and <<1, 0>> is "x\n"; two strs are equal iff their sequences *)
(*     are equal.  TAbsent is a key that is not in the mapping, TNonStr a  *)
(*     scalar that is not a str (an int, a bool, null).                    *)
(*   - enumerated fields (type, align, attr, ...) are strings, with        *)
(*     "absent" for a missing key and "nonstr" for a non-str scalar.       *)
(*   - lengths are pixels; positions are kept in half pixels (x2 = 2*x) so *)
(*     that centre +/- size/2 stays an integer.                            *)
(***************************************************************************)
EXTENDS Integers, Sequences, FiniteSets, TLC

VARIABLES
    doc,              \* the parsed document (yaml_data)
    pc,               \* position of convert_single_file / of the builder call
    errors,           \* YAMLValidator.errors
    warnings,         \* YAMLValidator.warnings
    node_texts,       \* YAMLValidator.node_texts
    connection_pairs, \* YAMLValidator.connection_pairs
    node_sizes,       \* GraphvizLayoutEngine.node_sizes      (text -> <<w, h>>)
    node_positions,   \* GraphvizLayoutEngine.node_positions  (text -> <<x2, y2>>)
    layout_calls,     \* number of times compute_layout was invoked
    next_id,          \* YAMLToInfConverter.next_id
    node_id_map,      \* YAMLToInfConverter.node_id_map       (text -> id)
    inf_json,         \* the scene built by YAMLToInfConverter.convert
    written,          \* TRUE once the output file has been written
    result,           \* return value of convert_single_file
    validate_only,    \* argument validate_only of convert_single_file
    tool_json,        \* inf_json of tools/converter.py convert_yaml_to_inf
    again,            \* what a second call on the same object returned
    batch,            \* a batch run: the directory, the files found, the counts
    measure,          \* a size computation: its input and what it returned
    layout_graph      \* the pygraphviz graph G of compute_layout

vars == <<doc, pc, errors, warnings, node_texts, connection_pairs, node_sizes,
          node_positions, layout_calls, next_id, node_id_map, inf_json,
          written, result, validate_only, tool_json, again, batch, measure,
          layout_graph>>

----------------------------------------------------------------------------
(* Bounds of the explored inputs *)

MaxNodes == 2
MaxConns == 2
MaxGroups == 1
MaxGroupRefs == 2
MaxBuildNodes == 2
MaxBuildItems == 1
MaxFiles == 2
MaxLines == 5
MaxRows == 2
MaxCols == 2
MaxBannerNodes == 3
MaxTableLines == 3

----------------------------------------------------------------------------
(* Generic helpers *)

Max2(a, b) == IF a >= b THEN a ELSE b
Min2(a, b) == IF a <= b THEN a ELSE b

SetMax(S) == CHOOSE m \in S : \A e \in S : e <= m
SetMin(S) == CHOOSE m \in S : \A e \in S : m <= e

RECURSIVE SeqSum(_)
SeqSum(s) == IF s = <<>> THEN 0 ELSE Head(s) + SeqSum(Tail(s))

Range(s) == {s[k] : k \in DOMAIN s}

\* Sequences over S of length 0..n
SeqsUpTo(S, n) == {SubSeq(f, 1, k) : f \in [1..n -> S], k \in 0..n}

\* Python int() of the half-pixel quantity a2 / 2: truncation toward zero
IntOfHalf(a2) == IF a2 >= 0 THEN a2 \div 2 ELSE -((-a2) \div 2)

----------------------------------------------------------------------------
(* YAML values *)

TAbsent == <<-1>>
TNonStr == <<-2>>

IsStr(t) == t[1] >= 0

\* str.strip() is empty: every line is empty
IsBlank(t) == \A k \in DOMAIN t : t[k] = 0

\* A node reference: kind "str" (text t), "int" (index i), or "absent"
StrRef(t) == [kind |-> "str", i |-> 0, t |-> t]
IntRef(i) == [kind |-> "int", i |-> i, t |-> <<0>>]
NoRef     == [kind |-> "absent", i |-> 0, t |-> <<0>>]

----------------------------------------------------------------------------
(* YAMLValidator (scripts/yaml_convert.py)                                  *)
(* The validator object is the record [errors, warnings, node_texts,        *)
(* connection_pairs]; an error is <<section, index, code>> with the 0-based *)
(* index the message carries.                                               *)

VALID_NODE_TYPES == {"rectangle", "circle", "diamond", "text", "code", "table"}
VALID_ALIGNMENTS == {"left", "center", "right"}
VALID_ENGINES    == {"dot", "neato", "fdp", "circo", "twopi"}
VALID_RANKDIRS   == {"TB", "LR", "BT", "RL"}
VALID_ATTRS      == {"title", "intro"}

NewValidator ==
    [errors |-> <<>>, warnings |-> <<>>, node_texts |-> {}, connection_pairs |-> {}]

error(v, msg)   == [v EXCEPT !.errors = Append(@, msg)]
warning(v, msg) == [v EXCEPT !.warnings = Append(@, msg)]

\* A markdown table is the sequence of its non-blank lines; a line is
\* [sep |-> '---' in line, bar |-> '|' in line, cells |-> lengths of its cells]
validate_table(v, table, index) ==
    IF table.kind # "str" THEN error(v, <<"node", index, "table_not_str">>)
    ELSE IF Len(table.lines) < 2 THEN error(v, <<"node", index, "table_too_short">>)
    ELSE IF \E k \in DOMAIN table.lines : table.lines[k].sep /\ table.lines[k].bar
         THEN v
         ELSE error(v, <<"node", index, "table_no_separator">>)

\* An optional str field with a set of valid values: the value is "absent",
\* "nonstr" or the str itself
check_enum(v, val, valid, not_str, invalid) ==
    IF val = "absent" THEN v
    ELSE IF val = "nonstr" THEN error(v, not_str)
    ELSE IF val \notin valid THEN error(v, invalid)
    ELSE v

\* for key in x.keys(): if key not in VALID_..._KEYS: self.error(...)
check_unknown_keys(v, x, section, index) ==
    IF x.unk THEN error(v, <<section, index, "unknown_key">>) ELSE v

\* Mutant: the duplicate-text check is missing
check_duplicate_text_off(v, text, index) ==
    [v EXCEPT !.node_texts = @ \cup {text}]

\* lines 162-166: the duplicate-text check
check_duplicate_text(v, text, index) ==
    IF text \in v.node_texts
    THEN error(v, <<"node", index, "text_duplicate">>)
    ELSE [v EXCEPT !.node_texts = @ \cup {text}]

\* lines 180-189: type, and the table field a table node requires
validate_node_type(v, node, index) ==
    IF node.type = "table" /\ node.table.kind = "absent"
    THEN error(v, <<"node", index, "table_required">>)
    ELSE check_enum(v, node.type, VALID_NODE_TYPES,
                    <<"node", index, "type_not_str">>, <<"node", index, "type_invalid">>)

\* lines 207-213: subgraph
validate_node_subgraph(v, node, index) ==
    IF node.subgraph = "absent" THEN v
    ELSE IF node.subgraph = "nonstr" THEN error(v, <<"node", index, "subgraph_not_str">>)
    ELSE IF node.subgraph # "yaml" THEN warning(v, <<"node", index, "subgraph_extension">>)
    ELSE v

\* lines 215-217: table
validate_node_table(v, node, index) ==
    IF node.table.kind = "absent" THEN v ELSE validate_table(v, node.table, index)

\* lines 162-217: the checks of a node whose text is a non-blank str
validate_node_fields(v, node, index) ==
    validate_node_table(
      validate_node_subgraph(
        check_enum(
          check_enum(
            validate_node_type(check_duplicate_text(v, node.text, index), node, index),
            node.align, VALID_ALIGNMENTS,
            <<"node", index, "align_not_str">>, <<"node", index, "align_invalid">>),
          node.attr, VALID_ATTRS,
          <<"node", index, "attr_not_str">>, <<"node", index, "attr_invalid">>),
        node, index),
      node, index)

\* lines 147-217: the text checks, each of which returns, then the others
validate_node_text(v, node, index) ==
    IF node.text = TAbsent THEN error(v, <<"node", index, "text_missing">>)
    ELSE IF ~IsStr(node.text) THEN error(v, <<"node", index, "text_not_str">>)
    ELSE IF IsBlank(node.text) THEN error(v, <<"node", index, "text_empty">>)
    ELSE validate_node_fields(v, node, index)

validate_node(v, node, index) ==
    IF ~node.isDict THEN error(v, <<"node", index, "not_dict">>)
    ELSE validate_node_text(check_unknown_keys(v, node, "node", index), node, index)

\* Mutant: the self-connection check is missing
check_self_connection_off(v, conn, index) == v

\* lines 274-276: the self-connection check
check_self_connection(v, conn, index) ==
    IF conn.from.kind = "str" /\ conn.to.kind = "str" /\ conn.from.t = conn.to.t
    THEN error(v, <<"connection", index, "self_connection">>)
    ELSE v

\* Mutant: the duplicate-connection check never reports
check_duplicate_connection_off(v, conn, index) ==
    IF ~(conn.from.kind = "str" /\ conn.to.kind = "str") THEN v
    ELSE [v EXCEPT !.connection_pairs = @ \cup {<<conn.from.t, conn.to.t>>}]

\* lines 278-284: the duplicate-connection check
check_duplicate_connection(v, conn, index) ==
    IF ~(conn.from.kind = "str" /\ conn.to.kind = "str") THEN v
    ELSE IF <<conn.from.t, conn.to.t>> \in v.connection_pairs
    THEN error(v, <<"connection", index, "duplicate">>)
    ELSE [v EXCEPT !.connection_pairs = @ \cup {<<conn.from.t, conn.to.t>>}]

\* lines 256-262 and 267-272: an endpoint that is present
check_endpoint(v, ref, not_str, not_found) ==
    IF ref.kind # "str" THEN error(v, not_str)
    ELSE IF ref.t \notin v.node_texts THEN error(v, not_found)
    ELSE v

\* lines 286-290: directed
check_directed(v, conn, index) ==
    IF conn.directed = "nonbool"
    THEN error(v, <<"connection", index, "directed_not_bool">>)
    ELSE v

\* lines 263-290: to, which returns when missing, then the checks on the pair
validate_connection_to(v, conn, index) ==
    IF conn.to.kind = "absent" THEN error(v, <<"connection", index, "to_missing">>)
    ELSE check_directed(
           check_duplicate_connection(
             check_self_connection(
               check_endpoint(v, conn.to, <<"connection", index, "to_not_str">>,
                              <<"connection", index, "to_not_found">>),
               conn, index),
             conn, index),
           conn, index)

\* lines 251-290: from, which returns when missing, then the rest
validate_connection_from(v, conn, index) ==
    IF conn.from.kind = "absent" THEN error(v, <<"connection", index, "from_missing">>)
    ELSE validate_connection_to(
           check_endpoint(v, conn.from, <<"connection", index, "from_not_str">>,
                          <<"connection", index, "from_not_found">>),
           conn, index)

validate_connection(v, conn, index) ==
    IF ~conn.isDict THEN error(v, <<"connection", index, "not_dict">>)
    ELSE validate_connection_from(check_unknown_keys(v, conn, "connection", index),
                                  conn, index)

RECURSIVE validate_group_refs(_, _, _, _)
validate_group_refs(v, nodes, index, k) ==
    IF k > Len(nodes) THEN v
    ELSE validate_group_refs(
           check_endpoint(v, nodes[k], <<"group", index, "ref_not_str">>,
                          <<"group", index, "ref_not_found">>),
           nodes, index, k + 1)

\* lines 304-308: name
validate_group_name(v, group, index) ==
    IF group.name = "absent" THEN error(v, <<"group", index, "name_missing">>)
    ELSE IF group.name = "nonstr" THEN error(v, <<"group", index, "name_not_str">>)
    ELSE v

\* lines 319-320: fewer than 2 entries
check_group_size(v, group, index) ==
    IF Len(group.nodes) < 2 THEN error(v, <<"group", index, "too_few_nodes">>) ELSE v

\* lines 310-326: nodes, which returns when missing or not a list
validate_group_nodes(v, group, index) ==
    IF group.nodesKind = "absent" THEN error(v, <<"group", index, "nodes_missing">>)
    ELSE IF group.nodesKind # "list" THEN error(v, <<"group", index, "nodes_not_list">>)
    ELSE validate_group_refs(check_group_size(v, group, index), group.nodes, index, 1)

validate_group(v, group, index) ==
    IF ~group.isDict THEN error(v, <<"group", index, "not_dict">>)
    ELSE validate_group_nodes(
           validate_group_name(check_unknown_keys(v, group, "group", index), group, index),
           group, index)

\* A layout number is "absent", "nonnum", "pos" (> 0) or "nonpos" (<= 0)
check_number(v, val, not_number, not_positive) ==
    IF val = "absent" THEN v
    ELSE IF val = "nonnum" THEN error(v, not_number)
    ELSE IF val = "nonpos" THEN error(v, not_positive)
    ELSE v

validate_layout(v, layout) ==
    IF layout.kind # "dict" THEN error(v, <<"layout", 0, "not_dict">>)
    ELSE check_number(
           check_number(
             check_enum(
               check_enum(check_unknown_keys(v, layout, "layout", 0),
                          layout.engine, VALID_ENGINES,
                          <<"layout", 0, "engine_not_str">>, <<"layout", 0, "engine_invalid">>),
               layout.rankdir, VALID_RANKDIRS,
               <<"layout", 0, "rankdir_not_str">>, <<"layout", 0, "rankdir_invalid">>),
             layout.ranksep,
             <<"layout", 0, "ranksep_not_number">>, <<"layout", 0, "ranksep_not_positive">>),
           layout.nodesep,
           <<"layout", 0, "nodesep_not_number">>, <<"layout", 0, "nodesep_not_positive">>)

RECURSIVE validate_nodes(_, _, _)
validate_nodes(v, nodes, k) ==
    IF k > Len(nodes) THEN v
    ELSE validate_nodes(validate_node(v, nodes[k], k - 1), nodes, k + 1)

RECURSIVE validate_connections(_, _, _)
validate_connections(v, conns, k) ==
    IF k > Len(conns) THEN v
    ELSE validate_connections(validate_connection(v, conns[k], k - 1), conns, k + 1)

RECURSIVE validate_groups(_, _, _)
validate_groups(v, groups, k) ==
    IF k > Len(groups) THEN v
    ELSE validate_groups(validate_group(v, groups[k], k - 1), groups, k + 1)

\* lines 108-112: the nodes list
validate_nodes_section(v, data) ==
    validate_nodes(IF Len(data.nodes) = 0 THEN warning(v, <<"root", 0, "no_nodes">>) ELSE v,
                   data.nodes, 1)

\* lines 114-120: connections
validate_connections_section(v, data) ==
    IF data.connsKind = "absent" THEN v
    ELSE IF data.connsKind # "list" THEN error(v, <<"root", 0, "connections_not_list">>)
    ELSE validate_connections(v, data.connections, 1)

\* lines 122-128: groups
validate_groups_section(v, data) ==
    IF data.groupsKind = "absent" THEN v
    ELSE IF data.groupsKind # "list" THEN error(v, <<"root", 0, "groups_not_list">>)
    ELSE validate_groups(v, data.groups, 1)

\* lines 130-132: layout
validate_layout_section(v, data) ==
    IF data.layout.kind = "absent" THEN v ELSE validate_layout(v, data.layout)

\* lines 100-132: nodes, which returns when missing or not a list, then the rest
validate_sections(v, data) ==
    IF data.nodesKind = "absent" THEN error(v, <<"root", 0, "nodes_missing">>)
    ELSE IF data.nodesKind # "list" THEN error(v, <<"root", 0, "nodes_not_list">>)
    ELSE validate_layout_section(
           validate_groups_section(
             validate_connections_section(validate_nodes_section(v, data), data),
             data),
           data)

validate(v, data) ==
    IF ~data.isDict THEN error(v, <<"root", 0, "not_dict">>)
    ELSE validate_sections(check_unknown_keys(v, data, "root", 0), data)
----------------------------------------------------------------------------
(* GraphvizLayoutEngine (scripts/yaml_convert.py)                           *)

CHAR_WIDTH      == 8
LINE_HEIGHT     == 20
FULL_WIDTH_MIN  == 400
PADDING         == 100
MIN_CANVAS      == 1000
DEFAULT_CANVAS  == 2000
DEFAULT_WIDTH   == 150
DEFAULT_HEIGHT  == 60
DEFAULT_POS     == 100
TABLE_LINE_HEIGHT == 18

\* dict.get(key, default) on a function
Get(f, k, default) == IF k \in DOMAIN f THEN f[k] ELSE default

\* node.get('text', ''), node.get('type', 'rectangle'), node.get('align', 'center')
TextOf(node)  == IF node.text = TAbsent THEN <<0>> ELSE node.text
TypeOf(node)  == IF node.type = "absent" THEN "rectangle" ELSE node.type
AlignOf(node) == IF node.align = "absent" THEN "center" ELSE node.align

\* The rows of data cells of a markdown table: the lines without '---'.
\* A cell of a markdown table is one line of text
RECURSIVE parse_table_cells(_)
parse_table_cells(lines) ==
    IF lines = <<>> THEN <<>>
    ELSE IF Head(lines).sep THEN parse_table_cells(Tail(lines))
    ELSE <<[k \in DOMAIN Head(lines).cells |-> <<Head(lines).cells[k]>>]>>
         \o parse_table_cells(Tail(lines))

TableLines(node) == IF node.table.kind = "str" THEN node.table.lines ELSE <<>>

\* <<rows, cols>>: the lines without '---', and the cells of the first line
\* that are not blank
parse_table_dimensions(lines) ==
    IF Len(lines) < 2 THEN <<3, 2>>
    ELSE <<Max2(1, Cardinality({k \in DOMAIN lines : ~lines[k].sep})),
           Max2(1, Cardinality({c \in DOMAIN lines[1].cells : lines[1].cells[c] > 0}))>>

\* cell_text is true: the text is not the empty string
NonEmpty(text) == text # <<0>>

\* Mutant: the narrowest cell of a column gives its width
calculate_table_dimensions_min(cells) ==
    IF cells = <<>> \/ cells[1] = <<>> THEN <<(<<100>>), (<<40>>)>>
    ELSE
    LET rows == Len(cells)
        cols == Len(cells[1])
        W(col) == {(84 * SetMax(Range(cells[r][col])) + 200) \div 10 :
                        r \in {q \in 1..rows : col <= Len(cells[q]) /\ NonEmpty(cells[q][col])}}
        H(row) == {30} \cup {Len(cells[row][c]) * TABLE_LINE_HEIGHT + 20 :
                        c \in {q \in 1..cols : q <= Len(cells[row]) /\ NonEmpty(cells[row][q])}}
    IN <<[col \in 1..cols |-> IF W(col) = {} THEN 40 ELSE Max2(40, SetMin(W(col)))],
         [row \in 1..rows |-> SetMax(H(row))]>>

\* <<col_widths, row_heights>>; cells[r][c] is the text of a cell, and
\* int(len * 8.4 + 20) = (84 * len + 200) \div 10
calculate_table_dimensions(cells) ==
    IF cells = <<>> \/ cells[1] = <<>> THEN <<(<<100>>), (<<40>>)>>
    ELSE
    LET rows == Len(cells)
        cols == Len(cells[1])
        W(col) == {40} \cup {(84 * SetMax(Range(cells[r][col])) + 200) \div 10 :
                        r \in {q \in 1..rows : col <= Len(cells[q]) /\ NonEmpty(cells[q][col])}}
        H(row) == {30} \cup {Len(cells[row][c]) * TABLE_LINE_HEIGHT + 20 :
                        c \in {q \in 1..cols : q <= Len(cells[row]) /\ NonEmpty(cells[row][q])}}
    IN <<[col \in 1..cols |-> SetMax(W(col))], [row \in 1..rows |-> SetMax(H(row))]>>

\* <<width, height>> in pixels (the code returns both / 72.0, in inches, and
\* compute_layout multiplies by 72 again)
calculate_node_size(node) ==
    LET text == TextOf(node)
        max_line_len == SetMax(Range(text))
        num_lines == Len(text)
        node_type == TypeOf(node)
    IN  IF node_type = "table"
        THEN LET d == calculate_table_dimensions(parse_table_cells(TableLines(node)))
             IN <<SeqSum(d[1]), SeqSum(d[2])>>
        ELSE IF node_type = "circle"
        THEN LET radius == Max2(60, Max2((max_line_len * CHAR_WIDTH) \div 2,
                                         (num_lines * LINE_HEIGHT) \div 2))
             IN <<radius * 2, radius * 2>>
        ELSE IF node_type = "diamond"
        THEN <<Max2(120, (max_line_len * CHAR_WIDTH * 3) \div 2),
               Max2(120, (num_lines * LINE_HEIGHT * 3) \div 2)>>
        ELSE IF node_type = "code"
        THEN <<Max2(200, max_line_len * CHAR_WIDTH + 40),
               Max2(100, num_lines * LINE_HEIGHT + 40)>>
        ELSE <<Max2(150, max_line_len * CHAR_WIDTH + 20),
               Max2(60, num_lines * LINE_HEIGHT + 20)>>

\* Indices (1-based) of the nodes compute_layout keeps as title_node,
\* intro_node (the last one of each) and regular_nodes
AttrIdx(nodes, a) == {k \in DOMAIN nodes : nodes[k].attr = a}
TitleIdx(nodes)   == IF AttrIdx(nodes, "title") = {} THEN 0 ELSE SetMax(AttrIdx(nodes, "title"))
IntroIdx(nodes)   == IF AttrIdx(nodes, "intro") = {} THEN 0 ELSE SetMax(AttrIdx(nodes, "intro"))
RegularIdx(nodes) == {k \in DOMAIN nodes : nodes[k].attr \notin {"title", "intro"}}

full_width(nodes) ==
    SetMax({FULL_WIDTH_MIN} \cup {calculate_node_size(nodes[k])[1] : k \in RegularIdx(nodes)})

\* node_id_map of compute_layout: text -> index of the last node with it
LayoutIdOf(nodes, t) == SetMax({k \in DOMAIN nodes : TextOf(nodes[k]) = t})
LayoutTexts(nodes)   == {TextOf(nodes[k]) : k \in DOMAIN nodes}

\* The nodes of the pygraphviz graph: those added with a size, and the
\* endpoints of the edges added from the connections
SizedIdx(nodes) == (RegularIdx(nodes) \cup {TitleIdx(nodes), IntroIdx(nodes)}) \ {0}

EdgeIdx(data) ==
    UNION {{LayoutIdOf(data.nodes, c.from.t), LayoutIdOf(data.nodes, c.to.t)} :
           c \in {d \in Range(data.connections) :
                    /\ d.from.kind = "str" /\ d.from.t \in LayoutTexts(data.nodes)
                    /\ d.to.kind = "str" /\ d.to.t \in LayoutTexts(data.nodes)}}

\* G.get_node finds every node compute_layout reads a position of
LayoutNodesFound(data) ==
    \A t \in LayoutTexts(data.nodes) :
        LayoutIdOf(data.nodes, t) \in SizedIdx(data.nodes) \cup EdgeIdx(data)

\* Mutant: the last regular node is tied to the banners
first_regular_last(nodes) ==
    IF RegularIdx(nodes) = {} THEN 0 ELSE SetMax(RegularIdx(nodes))

\* first_regular: the first of regular_nodes, 0 for None
first_regular(nodes) ==
    IF RegularIdx(nodes) = {} THEN 0 ELSE SetMin(RegularIdx(nodes))

\* The edges added with style='invis' (lines 604-613), as pairs of node indices
invisible_edges(nodes) ==
    LET title == TitleIdx(nodes)
        intro == IntroIdx(nodes)
        first == first_regular(nodes)
    IN  IF title # 0 /\ intro # 0
        THEN {<<title, intro>>} \cup (IF first # 0 THEN {<<intro, first>>} ELSE {})
        ELSE IF title # 0 /\ first # 0 THEN {<<title, first>>}
        ELSE IF intro # 0 /\ first # 0 THEN {<<intro, first>>}
        ELSE {}

\* The edges added from the connections (lines 627-638)
connection_edges(data) ==
    {<<LayoutIdOf(data.nodes, c.from.t), LayoutIdOf(data.nodes, c.to.t)>> :
        c \in {d \in Range(data.connections) :
                 /\ d.from.kind = "str" /\ d.from.t \in LayoutTexts(data.nodes)
                 /\ d.to.kind = "str" /\ d.to.t \in LayoutTexts(data.nodes)}}

NoGraph == [nodes |-> {}, invisible |-> {}, edges |-> {}]

\* The graph G when G.layout is called: its nodes, its invisible edges, its
\* other edges
build_graph(data) ==
    [nodes     |-> SizedIdx(data.nodes) \cup EdgeIdx(data),
     invisible |-> invisible_edges(data.nodes),
     edges     |-> connection_edges(data)]

\* self.node_sizes after the first pass of compute_layout; a later
\* assignment to the same text overwrites an earlier one
LayoutSizes(nodes) ==
    LET sized == {TextOf(nodes[k]) : k \in SizedIdx(nodes)}
        Last(t) ==
            LET reg == {k \in RegularIdx(nodes) : TextOf(nodes[k]) = t}
            IN IF reg # {} THEN SetMax(reg)
               ELSE IF IntroIdx(nodes) # 0 /\ TextOf(nodes[IntroIdx(nodes)]) = t
               THEN IntroIdx(nodes)
               ELSE TitleIdx(nodes)
        SizeOf(k) ==
            IF k \in RegularIdx(nodes) THEN calculate_node_size(nodes[k])
            ELSE <<full_width(nodes), calculate_node_size(nodes[k])[2]>>
    IN [t \in sized |-> SizeOf(Last(t))]

\* Mutant: the offsets are taken from the centres of the nodes
normalize_positions_centres(pos, sizes) ==
    IF DOMAIN pos = {} THEN pos
    ELSE
    LET sz(t)  == Get(sizes, t, <<DEFAULT_WIDTH, DEFAULT_HEIGHT>>)
        min_x  == SetMin({pos[t][1] : t \in DOMAIN pos})
        min_y0 == SetMin({pos[t][2] - sz(t)[2] : t \in DOMAIN pos})
        max_y0 == SetMax({pos[t][2] + sz(t)[2] : t \in DOMAIN pos})
        flip   == [t \in DOMAIN pos |-> <<pos[t][1], max_y0 + min_y0 - pos[t][2]>>]
        min_y  == SetMin({flip[t][2] : t \in DOMAIN pos})
        offset_x == IF min_x < 2 * PADDING THEN 2 * PADDING - min_x ELSE 0
        offset_y == IF min_y < 2 * PADDING THEN 2 * PADDING - min_y ELSE 0
    IN [t \in DOMAIN pos |-> <<flip[t][1] + offset_x, flip[t][2] + offset_y>>]

\* normalize_positions: positions (half pixels) flipped and shifted
normalize_positions(pos, sizes) ==
    IF DOMAIN pos = {} THEN pos
    ELSE
    LET sz(t)  == Get(sizes, t, <<DEFAULT_WIDTH, DEFAULT_HEIGHT>>)
        min_x  == SetMin({pos[t][1] - sz(t)[1] : t \in DOMAIN pos})
        min_y0 == SetMin({pos[t][2] - sz(t)[2] : t \in DOMAIN pos})
        max_y0 == SetMax({pos[t][2] + sz(t)[2] : t \in DOMAIN pos})
        flip   == [t \in DOMAIN pos |-> <<pos[t][1], max_y0 + min_y0 - pos[t][2]>>]
        min_y  == SetMin({flip[t][2] - sz(t)[2] : t \in DOMAIN pos})
        offset_x == IF min_x < 2 * PADDING THEN 2 * PADDING - min_x ELSE 0
        offset_y == IF min_y < 2 * PADDING THEN 2 * PADDING - min_y ELSE 0
    IN [t \in DOMAIN pos |-> <<flip[t][1] + offset_x, flip[t][2] + offset_y>>]

\* get_canvas_bounds on normalized positions: <<canvas_width, canvas_height>>
canvas_of(pos, sizes) ==
    IF DOMAIN pos = {} THEN <<DEFAULT_CANVAS, DEFAULT_CANVAS>>
    ELSE
    LET sz(t) == Get(sizes, t, <<DEFAULT_WIDTH, DEFAULT_HEIGHT>>)
        max_x == SetMax({0} \cup {pos[t][1] + sz(t)[1] : t \in DOMAIN pos})
        max_y == SetMax({0} \cup {pos[t][2] + sz(t)[2] : t \in DOMAIN pos})
    IN <<Max2(IntOfHalf(max_x + 2 * PADDING), MIN_CANVAS),
         Max2(IntOfHalf(max_y + 2 * PADDING), MIN_CANVAS)>>

----------------------------------------------------------------------------
(* YAMLToInfConverter (scripts/yaml_convert.py)                             *)
(* The converter object is [next_id, node_id_map]; every convert_* gives    *)
(* [conv |-> the converter afterwards, out |-> what it returns], None being *)
(* a record with ok = FALSE.                                                *)

Put(f, k, val) == [x \in DOMAIN f \cup {k} |-> IF x = k THEN val ELSE f[x]]

NewConverter == [next_id |-> 1, node_id_map |-> <<>>]

NoConn  == [ok |-> FALSE, id |-> 0, fromId |-> 0, toId |-> 0, directed |-> "true"]
NoGroup == [ok |-> FALSE, id |-> 0, name |-> "Group", nodeIds |-> <<>>]

NoScene == [present |-> FALSE, nodes |-> <<>>, connections |-> <<>>, groups |-> <<>>,
            nextId |-> 0, canvasWidth |-> 0, canvasHeight |-> 0]

\* Mutant: next_id is not incremented
allocate_node_id_noinc(conv, text) ==
    [next_id |-> conv.next_id, node_id_map |-> Put(conv.node_id_map, text, conv.next_id)]

\* lines 792-796: node_id = self.next_id; self.next_id += 1;
\* self.node_id_map[text] = node_id
allocate_node_id(conv, text) ==
    [next_id |-> conv.next_id + 1, node_id_map |-> Put(conv.node_id_map, text, conv.next_id)]

\* Fields a shape does not carry are -1 (x, y, width, height, radius, rows,
\* cols) or <<>> (colWidths, rowHeights, cells)
convert_node(conv, node, positions, sizes) ==
    LET node_id == conv.next_id
        text == node.text
        node_type == TypeOf(node)
        pos  == Get(positions, text, <<2 * DEFAULT_POS, 2 * DEFAULT_POS>>)
        size == Get(sizes, text, <<DEFAULT_WIDTH, DEFAULT_HEIGHT>>)
        dims == calculate_table_dimensions(parse_table_cells(TableLines(node)))
        base == [id |-> node_id, type |-> node_type, text |-> text,
                 textAlign |-> AlignOf(node),
                 x |-> -1, y |-> -1, width |-> -1, height |-> -1, radius |-> -1,
                 colWidths |-> <<>>, rowHeights |-> <<>>,
                 rows |-> -1, cols |-> -1, cells |-> <<>>]
        geo ==
            IF node_type = "circle"
            THEN [base EXCEPT !.x = IntOfHalf(pos[1]), !.y = IntOfHalf(pos[2]),
                              !.radius = size[1] \div 2]
            ELSE IF node_type = "diamond"
            THEN [base EXCEPT !.x = IntOfHalf(pos[1]), !.y = IntOfHalf(pos[2]),
                              !.width = size[1], !.height = size[2]]
            ELSE IF node_type = "table"
            THEN [base EXCEPT !.x = IntOfHalf(pos[1] - size[1]),
                              !.y = IntOfHalf(pos[2] - size[2]),
                              !.colWidths = dims[1], !.rowHeights = dims[2],
                              !.rows = parse_table_dimensions(TableLines(node))[1],
                              !.cols = parse_table_dimensions(TableLines(node))[2],
                              !.cells = parse_table_cells(TableLines(node))]
            ELSE [base EXCEPT !.x = IntOfHalf(pos[1] - size[1]),
                              !.y = IntOfHalf(pos[2] - size[2]),
                              !.width = size[1], !.height = size[2]]
    IN [conv |-> allocate_node_id(conv, text), out |-> geo]

\* 'x in self.node_id_map' for a reference: the keys are strs
InMap(ref, map) == ref.kind = "str" /\ ref.t \in DOMAIN map

DirectedOf(conn) == IF conn.directed = "absent" THEN "true" ELSE conn.directed

\* Mutant: fromId and toId are exchanged
convert_connection_swapped(conv, conn) ==
    IF ~InMap(conn.from, conv.node_id_map) \/ ~InMap(conn.to, conv.node_id_map)
    THEN [conv |-> conv, out |-> NoConn]
    ELSE [conv |-> [conv EXCEPT !.next_id = @ + 1],
          out  |-> [ok |-> TRUE, id |-> conv.next_id,
                    fromId |-> conv.node_id_map[conn.to.t],
                    toId |-> conv.node_id_map[conn.from.t],
                    directed |-> DirectedOf(conn)]]

\* Mutant: the connection takes an id without consuming it
convert_connection_noinc(conv, conn) ==
    IF ~InMap(conn.from, conv.node_id_map) \/ ~InMap(conn.to, conv.node_id_map)
    THEN [conv |-> conv, out |-> NoConn]
    ELSE [conv |-> conv,
          out  |-> [ok |-> TRUE, id |-> conv.next_id,
                    fromId |-> conv.node_id_map[conn.from.t],
                    toId |-> conv.node_id_map[conn.to.t],
                    directed |-> DirectedOf(conn)]]

convert_connection(conv, conn) ==
    IF ~InMap(conn.from, conv.node_id_map) \/ ~InMap(conn.to, conv.node_id_map)
    THEN [conv |-> conv, out |-> NoConn]
    ELSE [conv |-> [conv EXCEPT !.next_id = @ + 1],
          out  |-> [ok |-> TRUE, id |-> conv.next_id,
                    fromId |-> conv.node_id_map[conn.from.t],
                    toId |-> conv.node_id_map[conn.to.t],
                    directed |-> DirectedOf(conn)]]

GroupRefs(group) == IF group.nodesKind = "list" THEN group.nodes ELSE <<>>
GroupName(group) == IF group.name = "absent" THEN "Group" ELSE group.name

RECURSIVE ResolvedTexts(_, _)
ResolvedTexts(refs, map) ==
    IF refs = <<>> THEN <<>>
    ELSE (IF InMap(Head(refs), map) THEN <<map[Head(refs).t]>> ELSE <<>>)
         \o ResolvedTexts(Tail(refs), map)

convert_group(conv, group) ==
    LET group_id == conv.next_id
        after == [conv EXCEPT !.next_id = @ + 1]
        node_ids == ResolvedTexts(GroupRefs(group), conv.node_id_map)
    IN IF node_ids = <<>>
       THEN [conv |-> after, out |-> NoGroup]
       ELSE [conv |-> after,
             out  |-> [ok |-> TRUE, id |-> group_id, name |-> GroupName(group),
                       nodeIds |-> node_ids]]

RECURSIVE convert_nodes(_, _, _, _, _)
convert_nodes(conv, nodes, positions, sizes, acc) ==
    IF nodes = <<>> THEN [conv |-> conv, out |-> acc]
    ELSE LET r == convert_node(conv, Head(nodes), positions, sizes)
         IN convert_nodes(r.conv, Tail(nodes), positions, sizes, Append(acc, r.out))

RECURSIVE convert_connections(_, _, _)
convert_connections(conv, conns, acc) ==
    IF conns = <<>> THEN [conv |-> conv, out |-> acc]
    ELSE LET r == convert_connection(conv, Head(conns))
         IN convert_connections(r.conv, Tail(conns),
                                IF r.out.ok THEN Append(acc, r.out) ELSE acc)

RECURSIVE convert_groups(_, _, _)
convert_groups(conv, groups, acc) ==
    IF groups = <<>> THEN [conv |-> conv, out |-> acc]
    ELSE LET r == convert_group(conv, Head(groups))
         IN convert_groups(r.conv, Tail(groups),
                           IF r.out.ok THEN Append(acc, r.out) ELSE acc)

\* yaml_data.get('nodes', []) and the like
NodesOf(data)  == IF data.nodesKind = "list" THEN data.nodes ELSE <<>>
ConnsOf(data)  == IF data.connsKind = "list" THEN data.connections ELSE <<>>
GroupsOf(data) == IF data.groupsKind = "list" THEN data.groups ELSE <<>>

\* YAMLToInfConverter.convert: [conv, positions (normalized by
\* get_canvas_bounds), out |-> inf_json]
convert(conv, data, positions, sizes) ==
    LET norm   == normalize_positions(positions, sizes)
        canvas == canvas_of(norm, sizes)
        n == convert_nodes(conv, NodesOf(data), norm, sizes, <<>>)
        c == convert_connections(n.conv, ConnsOf(data), <<>>)
        g == convert_groups(c.conv, GroupsOf(data), <<>>)
    IN [conv |-> g.conv, positions |-> norm,
        out  |-> [present |-> TRUE, nodes |-> n.out, connections |-> c.out,
                  groups |-> g.out, nextId |-> g.conv.next_id,
                  canvasWidth |-> canvas[1], canvasHeight |-> canvas[2]]]

----------------------------------------------------------------------------
(* tools/converter.py                                                       *)
(* None (no node id) is 0.                                                  *)

\* node_map.get(text)
MapGet(map, t) == IF t \in DOMAIN map THEN map[t] ELSE 0

\* conn_yaml.get('from', ''): a missing key is the empty str
RefOrEmpty(ref) == IF ref.kind = "absent" THEN StrRef(<<0>>) ELSE ref

\* Mutant: an index resolves to the id of the node at that index, not to the
\* id node_map holds for that node's text
resolve_node_id_direct(ref, node_map, nodes_yaml) ==
    IF ref.kind = "int"
    THEN IF 0 <= ref.i /\ ref.i < Len(nodes_yaml) THEN ref.i + 1 ELSE 0
    ELSE IF ref.kind = "str" /\ ref.t \in DOMAIN node_map THEN node_map[ref.t] ELSE 0

resolve_node_id(ref, node_map, nodes_yaml) ==
    IF ref.kind = "int"
    THEN IF 0 <= ref.i /\ ref.i < Len(nodes_yaml)
         THEN MapGet(node_map, TextOf(nodes_yaml[ref.i + 1]))
         ELSE 0
    ELSE IF ref.kind = "str" /\ ref.t \in DOMAIN node_map THEN node_map[ref.t] ELSE 0

create_inf_connection(conn_id, conn_yaml, node_map, nodes_yaml) ==
    LET from_id == resolve_node_id(RefOrEmpty(conn_yaml.from), node_map, nodes_yaml)
        to_id   == resolve_node_id(RefOrEmpty(conn_yaml.to), node_map, nodes_yaml)
    IN IF from_id = 0 \/ to_id = 0 THEN NoConn
       ELSE [ok |-> TRUE, id |-> conn_id, fromId |-> from_id, toId |-> to_id,
             directed |-> DirectedOf(conn_yaml)]

RECURSIVE ResolvedRefs(_, _, _)
ResolvedRefs(refs, node_map, nodes_yaml) ==
    IF refs = <<>> THEN <<>>
    ELSE LET id == resolve_node_id(Head(refs), node_map, nodes_yaml)
         IN (IF id # 0 THEN <<id>> ELSE <<>>)
            \o ResolvedRefs(Tail(refs), node_map, nodes_yaml)

\* Mutant: a group is dropped as soon as one reference does not resolve
create_inf_group_strict(group_id, group_yaml, node_map, nodes_yaml) ==
    LET node_ids == ResolvedRefs(GroupRefs(group_yaml), node_map, nodes_yaml)
    IN IF Len(node_ids) < 1 \/ Len(node_ids) < Len(GroupRefs(group_yaml)) THEN NoGroup
       ELSE [ok |-> TRUE, id |-> group_id, name |-> GroupName(group_yaml),
             nodeIds |-> node_ids]

create_inf_group(group_id, group_yaml, node_map, nodes_yaml) ==
    LET node_ids == ResolvedRefs(GroupRefs(group_yaml), node_map, nodes_yaml)
    IN IF Len(node_ids) < 1 THEN NoGroup
       ELSE [ok |-> TRUE, id |-> group_id, name |-> GroupName(group_yaml),
             nodeIds |-> node_ids]

\* create_inf_node without the table and subgraph fields
create_inf_node(node_id, node_yaml) ==
    [id |-> node_id, type |-> TypeOf(node_yaml), text |-> TextOf(node_yaml),
     textAlign |-> AlignOf(node_yaml),
     x |-> -1, y |-> -1, width |-> -1, height |-> -1, radius |-> -1,
     colWidths |-> <<>>, rowHeights |-> <<>>]

RECURSIVE tool_connections(_, _, _, _, _)
tool_connections(nid, conns, node_map, nodes_yaml, acc) ==
    IF conns = <<>> THEN [next_id |-> nid, out |-> acc]
    ELSE LET c == create_inf_connection(nid, Head(conns), node_map, nodes_yaml)
         IN IF c.ok
            THEN tool_connections(nid + 1, Tail(conns), node_map, nodes_yaml, Append(acc, c))
            ELSE tool_connections(nid, Tail(conns), node_map, nodes_yaml, acc)

RECURSIVE tool_groups(_, _, _, _, _)
tool_groups(nid, groups, node_map, nodes_yaml, acc) ==
    IF groups = <<>> THEN [next_id |-> nid, out |-> acc]
    ELSE LET g == create_inf_group(nid, Head(groups), node_map, nodes_yaml)
         IN IF g.ok
            THEN tool_groups(nid + 1, Tail(groups), node_map, nodes_yaml, Append(acc, g))
            ELSE tool_groups(nid, Tail(groups), node_map, nodes_yaml, acc)

\* The node loop of convert_yaml_to_inf: [next_id, out |-> inf_nodes, map |->
\* node_text_to_id]
RECURSIVE tool_nodes(_, _, _, _)
tool_nodes(nid, nodes_yaml, acc, map) ==
    IF nodes_yaml = <<>> THEN [next_id |-> nid, out |-> acc, map |-> map]
    ELSE tool_nodes(nid + 1, Tail(nodes_yaml),
                    Append(acc, create_inf_node(nid, Head(nodes_yaml))),
                    Put(map, TextOf(Head(nodes_yaml)), nid))

\* convert_yaml_to_inf: the inf_json of its result, NoScene when it returns None
convert_yaml_to_inf(data) ==
    LET nodes_yaml == NodesOf(data) IN
    IF nodes_yaml = <<>> THEN NoScene
    ELSE
    LET n == tool_nodes(1, nodes_yaml, <<>>, <<>>)
        c == tool_connections(n.next_id, ConnsOf(data), n.map, nodes_yaml, <<>>)
        g == tool_groups(c.next_id, GroupsOf(data), n.map, nodes_yaml, <<>>)
    IN [present |-> TRUE, nodes |-> n.out, connections |-> c.out, groups |-> g.out,
        nextId |-> g.next_id, canvasWidth |-> 0, canvasHeight |-> 0]

----------------------------------------------------------------------------
(* Input documents *)

NoTable  == [kind |-> "absent", lines |-> <<>>]
NoLayout == [kind |-> "absent", unk |-> FALSE, engine |-> "absent", rankdir |-> "absent",
             ranksep |-> "absent", nodesep |-> "absent"]

MkNode(text, type, attr) ==
    [isDict |-> TRUE, unk |-> FALSE, text |-> text, type |-> type, align |-> "absent",
     attr |-> attr, subgraph |-> "absent", table |-> NoTable]

MkConn(from, to, directed) ==
    [isDict |-> TRUE, unk |-> FALSE, from |-> from, to |-> to, directed |-> directed]

MkGroup(name, nodesKind, nodes) ==
    [isDict |-> TRUE, unk |-> FALSE, name |-> name, nodesKind |-> nodesKind, nodes |-> nodes]

\* A document whose root is a mapping with a list under each given key
MkDoc(nodes, connsKind, conns, groupsKind, groups) ==
    [isDict |-> TRUE, unk |-> FALSE, nodesKind |-> "list", nodes |-> nodes,
     connsKind |-> connsKind, connections |-> conns,
     groupsKind |-> groupsKind, groups |-> groups, layout |-> NoLayout]

A == <<1>>
B == <<2>>
Unknown == <<9>>

PlainNodes == <<MkNode(A, "absent", "absent"), MkNode(B, "absent", "absent")>>

\* Documents with defects in the nodes
NodeTexts == {TAbsent, TNonStr, <<0>>, A, B}
NodeSet   == {MkNode(t, ty, at) : t \in NodeTexts, ty \in {"absent", "circle", "bogus"},
                                  at \in {"absent", "title"}}
NodeDocs  == {MkDoc(ns, "absent", <<>>, "absent", <<>>) : ns \in SeqsUpTo(NodeSet, MaxNodes)}

\* Documents with defects in the connections
ConnRefs == {NoRef, IntRef(0), StrRef(A), StrRef(B), StrRef(Unknown)}
ConnSet  == {MkConn(f, t, "absent") : f \in ConnRefs, t \in ConnRefs}
              \cup {MkConn(StrRef(A), StrRef(B), "nonbool"), MkConn(StrRef(B), StrRef(A), "false")}
ConnDocs == {MkDoc(PlainNodes, "list", cs, "absent", <<>>) : cs \in SeqsUpTo(ConnSet, MaxConns)}

\* Documents with defects in the groups
GroupRefSet == {IntRef(0), StrRef(A), StrRef(B), StrRef(Unknown)}
GroupSet  == {MkGroup("g", "list", rs) : rs \in SeqsUpTo(GroupRefSet, MaxGroupRefs)}
               \cup {MkGroup("absent", "list", <<StrRef(A), StrRef(B)>>),
                     MkGroup("absent", "list", <<StrRef(A)>>),
                     MkGroup("g", "absent", <<>>), MkGroup("nonstr", "nonlist", <<>>)}
GoodConns == {<<>>, <<MkConn(StrRef(A), StrRef(B), "absent")>>,
              <<MkConn(StrRef(A), StrRef(B), "absent"), MkConn(StrRef(B), StrRef(A), "true")>>}
GroupDocs == {MkDoc(PlainNodes, "list", cs, "list", gs) :
                 cs \in GoodConns, gs \in SeqsUpTo(GroupSet, MaxGroups)}


\* Raw positions the layout engine may return, in half pixels
RawCoords == {-600, 111, 3400}

----------------------------------------------------------------------------
(* convert_single_file (scripts/yaml_convert.py)                            *)

\* pc at a return statement of convert_single_file: the load failed (lines
\* 997-1006), validation failed (1014), validate_only (1018), compute_layout
\* failed (1027), the output was written (1052), the write failed (1055)
\* No second call was made, no batch is running
NoCall  == [made |-> FALSE]
NoBatch == [tool |-> "none"]

\* Nothing is being measured
NoSize == [op |-> "none"]

Returned == {"read_failed", "invalid", "validated", "layout_failed", "written_out",
             "write_failed"}

TypeOK ==
    /\ pc \in {"read", "validate", "layout", "convert", "write", "build", "tools",
               "built"} \cup Returned
    /\ written \in BOOLEAN
    /\ result \in {"none", "true", "false"}
    /\ layout_calls \in Nat

InitCommon ==
    /\ errors = <<>>
    /\ warnings = <<>>
    /\ node_texts = {}
    /\ connection_pairs = {}
    /\ node_sizes = <<>>
    /\ node_positions = <<>>
    /\ layout_calls = 0
    /\ next_id = 1
    /\ node_id_map = <<>>
    /\ inf_json = NoScene
    /\ tool_json = NoScene
    /\ written = FALSE
    /\ result = "none"
    /\ layout_graph = NoGraph

Init ==
    /\ \/ doc \in NodeDocs
       \/ doc \in ConnDocs
       \/ doc \in GroupDocs
    /\ validate_only \in BOOLEAN
    /\ pc = "read"
    /\ again = NoCall
    /\ batch = NoBatch
    /\ measure = NoSize
    /\ InitCommon

\* yaml.safe_load of the input file: it gives the document or raises
Read ==
    /\ pc = "read"
    /\ \E ok \in BOOLEAN :
         IF ok THEN pc' = "validate" /\ result' = result
         ELSE pc' = "read_failed" /\ result' = "false"
    /\ UNCHANGED <<layout_graph, measure, again, batch, doc, validate_only, errors, warnings, node_texts, connection_pairs,
                   node_sizes, node_positions, layout_calls, next_id, node_id_map,
                   inf_json, written, tool_json>>

\* Mutant: the result of validation is ignored
Validate_ignored ==
    /\ pc = "validate"
    /\ LET v == validate(NewValidator, doc) IN
         /\ errors' = v.errors
         /\ warnings' = v.warnings
         /\ node_texts' = v.node_texts
         /\ connection_pairs' = v.connection_pairs
         /\ IF validate_only THEN pc' = "validated" /\ result' = "true"
            ELSE pc' = "layout" /\ result' = result
    /\ UNCHANGED <<layout_graph, measure, again, batch, doc, validate_only, node_sizes, node_positions, layout_calls, next_id,
                   node_id_map, inf_json, written, tool_json>>

\* validator = YAMLValidator(); validator.validate(yaml_data); print_results
Validate ==
    /\ pc = "validate"
    /\ LET v == validate(NewValidator, doc) IN
         /\ errors' = v.errors
         /\ warnings' = v.warnings
         /\ node_texts' = v.node_texts
         /\ connection_pairs' = v.connection_pairs
         /\ IF v.errors # <<>> THEN pc' = "invalid" /\ result' = "false"
            ELSE IF validate_only THEN pc' = "validated" /\ result' = "true"
            ELSE pc' = "layout" /\ result' = result
    /\ UNCHANGED <<layout_graph, measure, again, batch, doc, validate_only, node_sizes, node_positions, layout_calls, next_id,
                   node_id_map, inf_json, written, tool_json>>

\* layout_engine = GraphvizLayoutEngine(yaml_data); layout_engine.compute_layout():
\* Graphviz either raises or gives every node of the graph a position
ComputeLayout ==
    /\ pc = "layout"
    /\ layout_calls' = layout_calls + 1
    /\ layout_graph' = build_graph(doc)
    /\ \E ok \in BOOLEAN :
         IF ok /\ LayoutNodesFound(doc)
         THEN /\ node_sizes' = LayoutSizes(doc.nodes)
              /\ node_positions' \in [LayoutTexts(doc.nodes) -> RawCoords \X RawCoords]
              /\ pc' = "convert"
              /\ result' = result
         ELSE /\ node_sizes' = LayoutSizes(doc.nodes)
              /\ node_positions' = node_positions
              /\ pc' = "layout_failed"
              /\ result' = "false"
    /\ UNCHANGED <<measure, again, batch, doc, validate_only, errors, warnings, node_texts, connection_pairs,
                   next_id, node_id_map, inf_json, written, tool_json>>

\* converter = YAMLToInfConverter(layout_engine); converter.convert(yaml_data)
Convert ==
    /\ pc = "convert"
    /\ LET r == convert(NewConverter, doc, node_positions, node_sizes) IN
         /\ next_id' = r.conv.next_id
         /\ node_id_map' = r.conv.node_id_map
         /\ node_positions' = r.positions
         /\ inf_json' = r.out
    /\ pc' = "write"
    /\ UNCHANGED <<layout_graph, measure, again, batch, doc, validate_only, errors, warnings, node_texts, connection_pairs,
                   node_sizes, layout_calls, written, result, tool_json>>

\* json.dump to output_file: it succeeds or raises
Write ==
    /\ pc = "write"
    /\ \E ok \in BOOLEAN :
         IF ok THEN written' = TRUE /\ result' = "true" /\ pc' = "written_out"
         ELSE written' = FALSE /\ result' = "false" /\ pc' = "write_failed"
    /\ UNCHANGED <<layout_graph, measure, again, batch, doc, validate_only, errors, warnings, node_texts, connection_pairs,
                   node_sizes, node_positions, layout_calls, next_id, node_id_map,
                   inf_json, tool_json>>

Next == Read \/ Validate \/ ComputeLayout \/ Convert \/ Write

Spec == Init /\ [][Next]_vars

----------------------------------------------------------------------------
(* The builders called on a document directly, without validation:         *)
(* YAMLToInfConverter(GraphvizLayoutEngine(data)).convert(data) and         *)
(* tools/converter.py convert_yaml_to_inf.                                  *)

BuildNodeLists ==
    SeqsUpTo({MkNode(A, "absent", "absent"), MkNode(B, "absent", "absent")}, MaxBuildNodes)

BuildConnRefs  == {StrRef(A), StrRef(B), StrRef(Unknown), IntRef(0), IntRef(1), IntRef(-1), NoRef}
BuildConnSet   == {MkConn(f, t, "absent") : f \in BuildConnRefs, t \in BuildConnRefs}
BuildGroupRefs == {StrRef(A), StrRef(Unknown), IntRef(1)}
BuildGroupSet  == {MkGroup("g", "list", rs) : rs \in SeqsUpTo(BuildGroupRefs, MaxGroupRefs)}

BuildConnDocs ==
    {MkDoc(ns, "list", cs, "absent", <<>>) :
        ns \in BuildNodeLists, cs \in SeqsUpTo(BuildConnSet, MaxBuildItems)}

BuildGroupDocs ==
    {MkDoc(ns, "list", cs, "list", gs) :
        ns \in BuildNodeLists,
        cs \in {<<>>, <<MkConn(StrRef(A), StrRef(B), "absent")>>},
        gs \in SeqsUpTo(BuildGroupSet, MaxBuildItems)}


InitBuild ==
    /\ \/ doc \in BuildConnDocs
       \/ doc \in BuildGroupDocs
    /\ validate_only = FALSE
    /\ pc = "build"
    /\ again = NoCall
    /\ batch = NoBatch
    /\ measure = NoSize
    /\ InitCommon

\* convert on a converter and a layout engine as their constructors leave them
ScriptConvert ==
    /\ pc = "build"
    /\ LET r == convert(NewConverter, doc, node_positions, node_sizes) IN
         /\ next_id' = r.conv.next_id
         /\ node_id_map' = r.conv.node_id_map
         /\ node_positions' = r.positions
         /\ inf_json' = r.out
    /\ pc' = "tools"
    /\ UNCHANGED <<layout_graph, measure, again, batch, doc, validate_only, errors, warnings, node_texts, connection_pairs,
                   node_sizes, layout_calls, written, result, tool_json>>

ToolConvert ==
    /\ pc = "tools"
    /\ tool_json' = convert_yaml_to_inf(doc)
    /\ pc' = "built"
    /\ UNCHANGED <<layout_graph, measure, again, batch, doc, validate_only, errors, warnings, node_texts, connection_pairs,
                   node_sizes, node_positions, layout_calls, next_id, node_id_map,
                   inf_json, written, result>>

NextBuild == ScriptConvert \/ ToolConvert

SpecBuild == InitBuild /\ [][NextBuild]_vars

----------------------------------------------------------------------------
(* tools/graphviz.py calculate_text_dimensions                              *)

GV_LINE_HEIGHT    == 18
MIN_NODE_WIDTH    == 120
MIN_NODE_HEIGHT   == 80
TEXT_NODE_WIDTH   == 150
TEXT_NODE_HEIGHT  == 60
CODE_NODE_WIDTH   == 200
CODE_NODE_HEIGHT  == 100
CIRCLE_MIN_RADIUS == 50
DIAMOND_MIN_SIZE  == 100
TABLE_CELL_WIDTH  == 100
TABLE_CELL_HEIGHT == 40
NODE_PADDING      == 20

\* <<width, height>>, and <<radius, radius>> for a circle; an empty text is
\* measured as " "
calculate_text_dimensions(text0, node_type) ==
    LET text == IF text0 = <<0>> THEN <<1>> ELSE text0
        text_width  == SetMax(Range(text)) * CHAR_WIDTH
        text_height == Len(text) * GV_LINE_HEIGHT
    IN  IF node_type = "text"
        THEN <<Max2(TEXT_NODE_WIDTH, text_width + NODE_PADDING),
               Max2(TEXT_NODE_HEIGHT, text_height + NODE_PADDING)>>
        ELSE IF node_type = "code"
        THEN <<Max2(CODE_NODE_WIDTH, text_width + NODE_PADDING * 2),
               Max2(CODE_NODE_HEIGHT, text_height + NODE_PADDING)>>
        ELSE IF node_type = "circle"
        THEN LET radius == Max2(CIRCLE_MIN_RADIUS,
                                (Max2(text_width, text_height) + NODE_PADDING) \div 2)
             IN <<radius, radius>>
        ELSE IF node_type = "diamond"
        THEN LET size == Max2(DIAMOND_MIN_SIZE,
                              Max2(text_width, text_height) + NODE_PADDING * 2)
             IN <<size, size>>
        ELSE IF node_type = "table"
        THEN <<TABLE_CELL_WIDTH * 3, TABLE_CELL_HEIGHT * 3>>
        ELSE <<Max2(MIN_NODE_WIDTH, text_width + NODE_PADDING),
               Max2(MIN_NODE_HEIGHT, text_height + NODE_PADDING)>>

----------------------------------------------------------------------------
(* tools/graphviz.py apply_layout. Graphviz positions are in points, the    *)
(* scene is in pixels.                                                      *)

DPI        == 72
SCREEN_DPI == 96

\* Python int() of the quotient n / d, d > 0: truncation toward zero
TruncDiv(n, d) == IF n >= 0 THEN n \div d ELSE -((-n) \div d)

\* <<inf_x, inf_y>>, with SCALE_FACTOR = SCREEN_DPI / DPI
graphviz_to_inf_coords(gv_x, gv_y, canvas_height) ==
    <<TruncDiv(gv_x * SCREEN_DPI, DPI),
      TruncDiv(canvas_height * DPI - gv_y * SCREEN_DPI, DPI)>>

\* next(n for n in nodes_yaml if n.get('text') == text): its type
TypeOfText(nodes, text) ==
    TypeOf(nodes[SetMin({k \in DOMAIN nodes : nodes[k].text = text})])

\* <<canvas_width, canvas_height>> for positions that are not empty and
\* nodes that are no tables
calculate_canvas_bounds(positions, nodes) ==
    LET dim(t) == calculate_text_dimensions(t, TypeOfText(nodes, t))
        min_x == SetMin({positions[t][1] - dim(t)[1] \div 2 : t \in DOMAIN positions})
        max_x == SetMax({positions[t][1] + dim(t)[1] \div 2 : t \in DOMAIN positions})
        min_y == SetMin({positions[t][2] - dim(t)[2] \div 2 : t \in DOMAIN positions})
        max_y == SetMax({positions[t][2] + dim(t)[2] \div 2 : t \in DOMAIN positions})
    IN <<Max2(1000, Min2(max_x - min_x + 100 * 2, 20000)),
         Max2(1000, Min2(max_y - min_y + 100 * 2, 20000))>>

\* Python floor division by 2
FloorHalf(n) == IF n >= 0 THEN n \div 2 ELSE -((1 - n) \div 2)

\* The geometry apply_layout gives a node that is no table: a circle has
\* its centre x, y and a radius, the others the top-left corner and a size
apply_node(node, position) ==
    LET dim == calculate_text_dimensions(node.text, TypeOf(node))
    IN IF TypeOf(node) = "circle"
       THEN [type |-> "circle", x |-> position[1], y |-> position[2],
             radius |-> dim[1], width |-> -1, height |-> -1]
       ELSE [type |-> TypeOf(node), x |-> position[1] - FloorHalf(dim[1]),
             y |-> position[2] - FloorHalf(dim[2]),
             radius |-> -1, width |-> dim[1], height |-> dim[2]]

\* apply_layout: [nodes, canvasWidth, canvasHeight] for the positions
\* create_graphviz_layout returned
apply_layout(nodes, gv_positions) ==
    LET canvas == calculate_canvas_bounds(gv_positions, nodes)
        adjusted == [t \in DOMAIN gv_positions |->
                       LET c == graphviz_to_inf_coords(gv_positions[t][1],
                                                       gv_positions[t][2], canvas[2])
                       IN <<c[1] + 100, c[2] + 100>>]
    IN [nodes |-> [k \in DOMAIN nodes |->
                     apply_node(nodes[k], Get(adjusted, nodes[k].text, <<500, 500>>))],
        canvasWidth |-> canvas[1], canvasHeight |-> canvas[2]]

----------------------------------------------------------------------------
(* The size functions applied to texts and tables of every shape            *)

\* Lengths of a line: empty, short, and long enough to pass every minimum
LineLens  == {0, 1, 20}
SizeTexts == SeqsUpTo(LineLens, MaxLines) \ {<<>>}
SizeTypes == VALID_NODE_TYPES \ {"table"}

\* Texts of a table cell: '', one short line, one longer line, two lines
CellTexts == {<<0>>, <<3>>, <<5>>, <<3, 3>>, <<5, 3>>}

\* The shape of a table is the number of cells of each of its rows; the
\* tables are those with the same text in every cell but one
TableShapes == SeqsUpTo(0..MaxCols, MaxRows)
CellsOf(shape) == {<<r, c>> : r \in DOMAIN shape, c \in 1..MaxCols} \cap
                  UNION {{<<r, c>> : c \in 1..shape[r]} : r \in DOMAIN shape}
FilledTable(shape, fill) == [r \in DOMAIN shape |-> [c \in 1..shape[r] |-> fill]]
WithCell(cells, at, text) == [cells EXCEPT ![at[1]][at[2]] = text]

\* Sizes a node may have in node_sizes, in pixels
SizeSamples == {<<150, 60>>, <<400, 120>>}

\* Markdown tables: separator lines and data lines of one to MaxCols cells,
\* a cell being blank (0) or two characters long
TableLineSet == {[sep |-> TRUE, bar |-> TRUE, cells |-> cs] : cs \in {<<3>>, <<3, 3>>}}
                  \cup {[sep |-> FALSE, bar |-> TRUE, cells |-> cs] :
                          cs \in SeqsUpTo({0, 2}, MaxCols) \ {<<>>}}
MarkdownTables == SeqsUpTo(TableLineSet, MaxTableLines)

\* Positions Graphviz may return, in points, and the nodes it places
GvCoords  == {27, 300, 1500}
LaidNodes == {<<MkNode(A, ty, "absent")>> : ty \in {"absent", "circle"}}
               \cup {<<MkNode(A, ty, "absent"), MkNode(B, "diamond", "absent")>> :
                        ty \in {"absent", "circle"}}

InitSize ==
    /\ \/ measure \in [op : {"node", "text"}, phase : {"new"}, text : SizeTexts,
                     type : SizeTypes, size : {<<0, 0>>}]
       \/ \E shape \in TableShapes, fill \in CellTexts :
            \/ measure = [op |-> "table", phase |-> "new", at |-> <<0, 0>>,
                        cells |-> FilledTable(shape, fill),
                        dims |-> <<(<<>>), (<<>>)>>]
            \/ \E at \in CellsOf(shape), text \in CellTexts :
                 measure = [op |-> "table", phase |-> "new", at |-> at,
                          cells |-> WithCell(FilledTable(shape, fill), at, text),
                          dims |-> <<(<<>>), (<<>>)>>]
       \/ \E texts \in {{A}, {A, B}} :
            \E pos \in [texts -> RawCoords \X RawCoords], known \in SUBSET texts :
              \E sizes \in [known -> SizeSamples] :
                 measure = [op |-> "positions", phase |-> "new", pos |-> pos,
                            sizes |-> sizes, out |-> <<>>]
       \/ \E nodes \in LaidNodes :
            \E pos \in [{nodes[k].text : k \in DOMAIN nodes} -> GvCoords \X GvCoords] :
                 measure = [op |-> "apply", phase |-> "new", nodes |-> nodes,
                            pos |-> pos, out |-> NoScene]
       \/ \E lines \in MarkdownTables :
            measure = [op |-> "tablenode", phase |-> "new",
                       node |-> [MkNode(A, "table", "absent") EXCEPT
                                   !.table = [kind |-> "str", lines |-> lines]],
                       valid |-> FALSE, size |-> <<0, 0>>, out |-> <<>>]
    /\ doc = MkDoc(<<>>, "absent", <<>>, "absent", <<>>)
    /\ validate_only = FALSE
    /\ pc = "size"
    /\ again = NoCall
    /\ batch = NoBatch
    /\ InitCommon

\* GraphvizLayoutEngine.calculate_node_size(node)
MeasureNode ==
    /\ measure.op = "node" /\ measure.phase = "new"
    /\ measure' = [measure EXCEPT
                   !.phase = "measured",
                   !.size = calculate_node_size(MkNode(measure.text, measure.type, "absent"))]
    /\ UNCHANGED <<layout_graph, doc, pc, errors, warnings, node_texts, connection_pairs, node_sizes,
                   node_positions, layout_calls, next_id, node_id_map, inf_json,
                   written, result, validate_only, tool_json, again, batch>>

\* tools/graphviz.py calculate_text_dimensions(text, node_type)
MeasureText ==
    /\ measure.op = "text" /\ measure.phase = "new"
    /\ measure' = [measure EXCEPT
                   !.phase = "measured",
                   !.size = calculate_text_dimensions(measure.text, measure.type)]
    /\ UNCHANGED <<layout_graph, doc, pc, errors, warnings, node_texts, connection_pairs, node_sizes,
                   node_positions, layout_calls, next_id, node_id_map, inf_json,
                   written, result, validate_only, tool_json, again, batch>>

\* calculate_table_dimensions(cells)
MeasureTable ==
    /\ measure.op = "table" /\ measure.phase = "new"
    /\ measure' = [measure EXCEPT
                   !.phase = "measured",
                   !.dims = calculate_table_dimensions(measure.cells)]
    /\ UNCHANGED <<layout_graph, doc, pc, errors, warnings, node_texts, connection_pairs, node_sizes,
                   node_positions, layout_calls, next_id, node_id_map, inf_json,
                   written, result, validate_only, tool_json, again, batch>>

\* The text of one cell is replaced and calculate_table_dimensions is called
\* again
EditCell ==
    /\ measure.op = "table" /\ measure.phase = "measured" /\ measure.at # <<0, 0>>
    /\ \E text \in CellTexts :
         LET edited == WithCell(measure.cells, measure.at, text)
         IN measure' = [op |-> "table", phase |-> "edited", at |-> measure.at,
                      cells |-> edited, dims |-> calculate_table_dimensions(edited),
                      before |-> [cells |-> measure.cells, dims |-> measure.dims]]
    /\ UNCHANGED <<layout_graph, doc, pc, errors, warnings, node_texts, connection_pairs, node_sizes,
                   node_positions, layout_calls, next_id, node_id_map, inf_json,
                   written, result, validate_only, tool_json, again, batch>>

\* GraphvizLayoutEngine.normalize_positions()
NormalizePositions ==
    /\ measure.op = "positions" /\ measure.phase = "new"
    /\ measure' = [measure EXCEPT
                   !.phase = "normalized",
                   !.out = normalize_positions(measure.pos, measure.sizes)]
    /\ UNCHANGED <<doc, pc, errors, warnings, node_texts, connection_pairs, node_sizes,
                   node_positions, layout_calls, next_id, node_id_map, inf_json,
                   written, result, validate_only, tool_json, again, batch, layout_graph>>

\* tools/graphviz.py apply_layout(inf_json, yaml_data, layout_config)
ApplyLayout ==
    /\ measure.op = "apply" /\ measure.phase = "new"
    /\ measure' = [measure EXCEPT
                   !.phase = "applied",
                   !.out = apply_layout(measure.nodes, measure.pos)]
    /\ UNCHANGED <<doc, pc, errors, warnings, node_texts, connection_pairs, node_sizes,
                   node_positions, layout_calls, next_id, node_id_map, inf_json,
                   written, result, validate_only, tool_json, again, batch, layout_graph>>

\* A table node is validated, sized by calculate_node_size and emitted by
\* convert_node
ConvertTableNode ==
    /\ measure.op = "tablenode" /\ measure.phase = "new"
    /\ LET node == measure.node
           size == calculate_node_size(node)
       IN measure' = [measure EXCEPT
                      !.phase = "emitted",
                      !.valid = validate_node(NewValidator, node, 0).errors = <<>>,
                      !.size = size,
                      !.out = convert_node(NewConverter, node,
                                           (node.text :> <<2 * DEFAULT_CANVAS, 2 * DEFAULT_CANVAS>>),
                                           (node.text :> size)).out]
    /\ UNCHANGED <<doc, pc, errors, warnings, node_texts, connection_pairs, node_sizes,
                   node_positions, layout_calls, next_id, node_id_map, inf_json,
                   written, result, validate_only, tool_json, again, batch, layout_graph>>

NextSize == MeasureNode \/ MeasureText \/ MeasureTable \/ EditCell \/ NormalizePositions
            \/ ApplyLayout \/ ConvertTableNode

SpecSize == InitSize /\ [][NextSize]_vars

----------------------------------------------------------------------------
(* convert_single_file on documents with banner nodes (attr title, intro)   *)

\* A line long enough for a rectangle wider than the 400-pixel floor
Long == <<60>>

BannerAttrs == {"absent", "title", "intro"}

\* The text of the k-th node: the texts of a document differ
BannerText(k) == IF k = 1 THEN Long ELSE <<k>>

BannerNodes == {[k \in 1..n |-> MkNode(BannerText(k), "absent", a[k])] :
                   a \in [1..MaxBannerNodes -> BannerAttrs], n \in 1..MaxBannerNodes}
BannerConns == {<<>>, <<MkConn(StrRef(BannerText(1)), StrRef(BannerText(2)), "absent")>>}
BannerDocs  == {MkDoc(ns, "list", cs, "absent", <<>>) : ns \in BannerNodes, cs \in BannerConns}

InitBanner ==
    /\ doc \in BannerDocs
    /\ validate_only \in BOOLEAN
    /\ pc = "read"
    /\ again = NoCall
    /\ batch = NoBatch
    /\ measure = NoSize
    /\ InitCommon

\* Positions of a layout in one column, in half pixels: node k lies Gap
\* below node k - 1
Gap == 400
ColumnLayouts(nodes) ==
    {[t \in LayoutTexts(nodes) |-> <<x, y - Gap * LayoutIdOf(nodes, t)>>] :
        x \in RawCoords, y \in RawCoords}

\* compute_layout when Graphviz places the nodes in one column
ComputeLayoutColumn ==
    /\ pc = "layout"
    /\ layout_calls' = layout_calls + 1
    /\ layout_graph' = build_graph(doc)
    /\ \E ok \in BOOLEAN :
         IF ok /\ LayoutNodesFound(doc)
         THEN /\ node_sizes' = LayoutSizes(doc.nodes)
              /\ node_positions' \in ColumnLayouts(doc.nodes)
              /\ pc' = "convert"
              /\ result' = result
         ELSE /\ node_sizes' = LayoutSizes(doc.nodes)
              /\ node_positions' = node_positions
              /\ pc' = "layout_failed"
              /\ result' = "false"
    /\ UNCHANGED <<measure, again, batch, doc, validate_only, errors, warnings, node_texts,
                   connection_pairs, next_id, node_id_map, inf_json, written, tool_json>>

NextBanner == Read \/ Validate \/ ComputeLayoutColumn \/ Convert \/ Write

SpecBanner == InitBanner /\ [][NextBanner]_vars

----------------------------------------------------------------------------
(* The subgraph reference of a node: scripts convert_node (lines 848-854)   *)
(* and tools/converter.py create_inf_node with resolve_subgraph_path.       *)
(* A path is the sequence of its parts: names, "/" and extensions; None is  *)
(* <<>>. The paths are relative to the directory of the document.           *)

NoPath == <<>>

EndsWithYaml(path) == path # <<>> /\ path[Len(path)] = ".yaml"

\* subgraph_path[:-5] + '.json'
swap_extension(path) == [path EXCEPT ![Len(path)] = ".json"]

\* str.replace('.yaml', '.json'): every occurrence
replace_yaml(path) == [k \in DOMAIN path |-> IF path[k] = ".yaml" THEN ".json" ELSE path[k]]

\* scripts convert_node: inf_node['subgraph'], NoPath when the key is not set
script_subgraph(hint) ==
    IF hint = NoPath THEN NoPath
    ELSE IF EndsWithYaml(hint) THEN swap_extension(hint)
    ELSE hint

\* resolve_subgraph_path: the path of the nested document, NoPath for None;
\* files are the paths that exist
resolve_subgraph_path(files, hint) ==
    IF hint = NoPath THEN NoPath
    ELSE LET dir_path  == hint \o <<"/">> \o hint \o <<".yaml">>
             path == IF EndsWithYaml(hint) THEN hint
                     ELSE IF dir_path \in files THEN dir_path
                     ELSE hint \o <<".yaml">>
         IN IF path \in files THEN path ELSE NoPath

\* tools create_inf_node: inf_node['subgraph'], NoPath when the key is not set
tool_subgraph(files, hint) ==
    LET subgraph_path == resolve_subgraph_path(files, hint)
    IN IF subgraph_path = NoPath THEN NoPath ELSE replace_yaml(subgraph_path)

\* References a node may carry, and the files they may name
Hints == {NoPath, <<"sub", ".yaml">>, <<"sub">>, <<"v1", ".yaml", "/", "sub", ".yaml">>,
          <<"sub", ".yml">>}
NestedFiles == {<<"sub", ".yaml">>, <<"sub", "/", "sub", ".yaml">>,
                <<"v1", ".yaml", "/", "sub", ".yaml">>, <<"sub", ".yml">>,
                <<"sub", ".yml", ".yaml">>}

InitSubgraph ==
    /\ measure \in [op : {"subgraph"}, phase : {"new"}, tool : {"scripts", "tools"},
                    hint : Hints, files : SUBSET NestedFiles, out : {NoPath}]
    /\ doc = MkDoc(<<>>, "absent", <<>>, "absent", <<>>)
    /\ validate_only = FALSE
    /\ pc = "node"
    /\ again = NoCall
    /\ batch = NoBatch
    /\ InitCommon

\* convert_node of scripts/yaml_convert.py sets the subgraph of the node
ScriptSubgraph ==
    /\ measure.op = "subgraph" /\ measure.phase = "new" /\ measure.tool = "scripts"
    /\ measure' = [measure EXCEPT !.phase = "emitted", !.out = script_subgraph(measure.hint)]
    /\ UNCHANGED <<doc, pc, errors, warnings, node_texts, connection_pairs, node_sizes,
                   node_positions, layout_calls, next_id, node_id_map, inf_json,
                   written, result, validate_only, tool_json, again, batch, layout_graph>>

\* create_inf_node of tools/converter.py sets the subgraph of the node
ToolSubgraph ==
    /\ measure.op = "subgraph" /\ measure.phase = "new" /\ measure.tool = "tools"
    /\ measure' = [measure EXCEPT
                   !.phase = "emitted",
                   !.out = tool_subgraph(measure.files, measure.hint)]
    /\ UNCHANGED <<doc, pc, errors, warnings, node_texts, connection_pairs, node_sizes,
                   node_positions, layout_calls, next_id, node_id_map, inf_json,
                   written, result, validate_only, tool_json, again, batch, layout_graph>>

NextSubgraph == ScriptSubgraph \/ ToolSubgraph

SpecSubgraph == InitSubgraph /\ [][NextSubgraph]_vars

----------------------------------------------------------------------------
(* A second call on the same object: validator.validate(yaml_data) and      *)
(* converter.convert(yaml_data) called again by the holder of the object.   *)

\* What a call of validate gives its caller
ValidationOf(v) ==
    [valid |-> v.errors = <<>>, errors |-> v.errors, warnings |-> v.warnings]

\* validate is called once more with the same document, on the validator
\* that made the first call or on a new YAMLValidator()
ValidateAgain ==
    /\ pc \in {"invalid", "validated", "layout"}
    /\ ~again.made
    /\ \E same \in BOOLEAN :
         LET self == [errors |-> errors, warnings |-> warnings,
                      node_texts |-> node_texts,
                      connection_pairs |-> connection_pairs]
             v == validate(IF same THEN self ELSE NewValidator, doc)
         IN /\ again' = [made |-> TRUE, call |-> "validate", same |-> same,
                         first |-> ValidationOf(self), second |-> ValidationOf(v)]
            /\ errors' = v.errors
            /\ warnings' = v.warnings
            /\ node_texts' = v.node_texts
            /\ connection_pairs' = v.connection_pairs
    /\ UNCHANGED <<layout_graph, measure, batch, doc, pc, validate_only, node_sizes, node_positions, layout_calls,
                   next_id, node_id_map, inf_json, written, result, tool_json>>

\* convert is called once more with the same document on the same converter
\* and layout engine
ConvertAgain ==
    /\ pc = "write"
    /\ ~again.made
    /\ LET self == [next_id |-> next_id, node_id_map |-> node_id_map]
           r == convert(self, doc, node_positions, node_sizes)
       IN /\ again' = [made |-> TRUE, call |-> "convert", positions |-> node_positions,
                       first |-> inf_json, second |-> r.out]
          /\ next_id' = r.conv.next_id
          /\ node_id_map' = r.conv.node_id_map
          /\ node_positions' = r.positions
    /\ UNCHANGED <<layout_graph, measure, batch, doc, pc, validate_only, errors, warnings, node_texts,
                   connection_pairs, node_sizes, layout_calls, inf_json, written, result,
                   tool_json>>

NextTwice == Read \/ Validate \/ ComputeLayout \/ Convert \/ Write
             \/ ValidateAgain \/ ConvertAgain

SpecTwice == Init /\ [][NextTwice]_vars

----------------------------------------------------------------------------
(* Batch mode: scripts/yaml_convert.py convert_directory and                *)
(* tools/yaml2inf.py main.                                                  *)
(* A directory is the sorted sequence of its files; a file is               *)
(* [yaml |-> its name ends in .yaml, nested |-> it lies in a subdirectory,  *)
(*  fate |-> where the conversion of this one file ends].                   *)

\* The return sites of a conversion that is not validate-only
Fates == Returned \ {"validated"}

FileSet == [yaml : BOOLEAN, nested : BOOLEAN, fate : Fates]
Trees   == SeqsUpTo(FileSet, MaxFiles)

RECURSIVE Sorted(_)
Sorted(S) == IF S = {} THEN <<>> ELSE <<SetMin(S)>> \o Sorted(S \ {SetMin(S)})

\* sorted(dir_path.glob('*.yaml')): the .yaml files of the directory itself
glob_yaml(tree) == Sorted({k \in DOMAIN tree : tree[k].yaml /\ ~tree[k].nested})

\* find_yaml_files: os.walk, every .yaml file at any depth
find_yaml_files(tree) == Sorted({k \in DOMAIN tree : tree[k].yaml})

\* What one conversion gives the batch loop. convert_single_file returns
\* True after the write and False at every other return site; in
\* tools/yaml2inf.py parse_yaml_file calls sys.exit(1) when the file cannot
\* be read or parsed, and convert_yaml_to_inf returns False or True otherwise
convert_one(tool, fate) ==
    IF tool = "tools" /\ fate = "read_failed" THEN "exit"
    ELSE IF fate = "written_out" THEN "true"
    ELSE "false"

\* validate is args.validate of tools/yaml2inf.py; written are the files whose
\* JSON file was written
NewBatch(tool, tree, flag) ==
    [tool |-> tool, tree |-> tree, validate |-> flag, phase |-> "discover",
     yaml_files |-> <<>>, pos |-> 1, attempted |-> <<>>, written |-> {},
     success_count |-> 0, status |-> "running"]

InitBatch ==
    /\ \/ batch \in {NewBatch("scripts", tree, FALSE) : tree \in Trees}
       \/ batch \in {NewBatch("tools", tree, flag) : tree \in Trees, flag \in BOOLEAN}
    /\ doc = MkDoc(<<>>, "absent", <<>>, "absent", <<>>)
    /\ validate_only = FALSE
    /\ pc = "batch"
    /\ again = NoCall
    /\ measure = NoSize
    /\ InitCommon

\* The files are listed; with none, convert_directory returns True and main
\* calls sys.exit(0)
BatchDiscover ==
    /\ batch.tool # "none" /\ batch.phase = "discover"
    /\ LET found == IF batch.tool = "scripts" THEN glob_yaml(batch.tree)
                    ELSE find_yaml_files(batch.tree)
       IN batch' = [batch EXCEPT
                      !.yaml_files = found,
                      !.phase = IF found = <<>> THEN "ended" ELSE "loop",
                      !.status = IF found # <<>> THEN "running"
                                 ELSE IF batch.tool = "scripts" THEN "true" ELSE "exit0"]
    /\ UNCHANGED <<layout_graph, measure, doc, pc, errors, warnings, node_texts, connection_pairs, node_sizes,
                   node_positions, layout_calls, next_id, node_id_map, inf_json,
                   written, result, validate_only, tool_json, again>>

\* One iteration of the loop over yaml_files
BatchFile ==
    /\ batch.tool # "none" /\ batch.phase = "loop" /\ batch.pos <= Len(batch.yaml_files)
    /\ LET file == batch.yaml_files[batch.pos]
           got  == convert_one(batch.tool, batch.tree[file].fate)
       IN batch' = [batch EXCEPT
                      !.attempted = Append(@, file),
                      !.written = IF batch.tree[file].fate = "written_out"
                                  THEN @ \cup {file} ELSE @,
                      !.pos = @ + 1,
                      !.success_count = IF got = "true" THEN @ + 1 ELSE @,
                      !.phase = IF got = "exit" THEN "ended" ELSE @,
                      !.status = IF got = "exit" THEN "exit1" ELSE @]
    /\ UNCHANGED <<layout_graph, measure, doc, pc, errors, warnings, node_texts, connection_pairs, node_sizes,
                   node_positions, layout_calls, next_id, node_id_map, inf_json,
                   written, result, validate_only, tool_json, again>>

\* The summary after the loop: convert_directory returns whether no file
\* failed, main exits with 0 or 1
BatchSummary ==
    /\ batch.tool # "none" /\ batch.phase = "loop" /\ batch.pos > Len(batch.yaml_files)
    /\ LET all_ok == batch.success_count = Len(batch.yaml_files)
       IN batch' = [batch EXCEPT
                      !.phase = "ended",
                      !.status = IF batch.tool = "scripts"
                                 THEN (IF all_ok THEN "true" ELSE "false")
                                 ELSE (IF all_ok THEN "exit0" ELSE "exit1")]
    /\ UNCHANGED <<layout_graph, measure, doc, pc, errors, warnings, node_texts, connection_pairs, node_sizes,
                   node_positions, layout_calls, next_id, node_id_map, inf_json,
                   written, result, validate_only, tool_json, again>>

NextBatch == BatchDiscover \/ BatchFile \/ BatchSummary

SpecBatch == InitBatch /\ [][NextBatch]_vars

----------------------------------------------------------------------------
(* Properties: shared definitions *)

SceneBuilt == pc \in {"write", "written_out", "write_failed"}
ValidationRan == pc \notin {"read", "validate", "read_failed"}

HasError(section, index) ==
    \E k \in DOMAIN errors : errors[k][1] = section /\ errors[k][2] = index

HasErrorCode(section, index, code) ==
    \E k \in DOMAIN errors : errors[k] = <<section, index, code>>

\* Bounding box <<left, top, right, bottom>> in half pixels of an emitted
\* node: circle and diamond are centre based, the others top-left based
EmittedBox(n) ==
    IF n.type = "circle"
    THEN <<2 * (n.x - n.radius), 2 * (n.y - n.radius),
           2 * (n.x + n.radius), 2 * (n.y + n.radius)>>
    ELSE IF n.type = "diamond"
    THEN <<2 * n.x - n.width, 2 * n.y - n.height, 2 * n.x + n.width, 2 * n.y + n.height>>
    ELSE IF n.type = "table"
    THEN <<2 * n.x, 2 * n.y, 2 * (n.x + SeqSum(n.colWidths)), 2 * (n.y + SeqSum(n.rowHeights))>>
    ELSE <<2 * n.x, 2 * n.y, 2 * (n.x + n.width), 2 * (n.y + n.height)>>

\* Bounding box of a node as the layout engine holds it (centre +/- size/2)
EngineBox(t) ==
    LET p == node_positions[t]
        z == Get(node_sizes, t, <<DEFAULT_WIDTH, DEFAULT_HEIGHT>>)
    IN <<p[1] - z[1], p[2] - z[2], p[1] + z[1], p[2] + z[2]>>

InCanvas(box, scene) ==
    /\ box[1] >= 0
    /\ box[2] >= 0
    /\ box[3] <= 2 * scene.canvasWidth
    /\ box[4] <= 2 * scene.canvasHeight

SceneIds(scene) ==
    {scene.nodes[k].id : k \in DOMAIN scene.nodes}
        \cup {scene.connections[k].id : k \in DOMAIN scene.connections}
        \cup {scene.groups[k].id : k \in DOMAIN scene.groups}

SceneSize(scene) == Len(scene.nodes) + Len(scene.connections) + Len(scene.groups)

IdsDistinct(scene) == Cardinality(SceneIds(scene)) = SceneSize(scene)

MaxId(scene) == IF SceneIds(scene) = {} THEN 0 ELSE SetMax(SceneIds(scene))

DistinctTexts(nodes) ==
    \A j, k \in DOMAIN nodes : j # k => nodes[j].text # nodes[k].text

\* Index (1-based) of the node of the document with text t
NodeWithText(nodes, t) == CHOOSE k \in DOMAIN nodes : nodes[k].text = t

----------------------------------------------------------------------------
(* C1: after get_canvas_bounds every node's bounding box, as the layout     *)
(* engine holds it and as convert_node emits it, lies inside                *)
(* [0, canvasWidth] x [0, canvasHeight].                                    *)
C1_BoxesInCanvas ==
    SceneBuilt =>
        \A k \in DOMAIN inf_json.nodes :
            /\ InCanvas(EngineBox(inf_json.nodes[k].text), inf_json)
            /\ InCanvas(EmittedBox(inf_json.nodes[k]), inf_json)

(* C1, the half that holds: the boxes the layout engine holds are inside.   *)
C1_EngineBoxesInCanvas ==
    SceneBuilt =>
        \A k \in DOMAIN inf_json.nodes :
            InCanvas(EngineBox(inf_json.nodes[k].text), inf_json)

----------------------------------------------------------------------------
(* C2: a document with N nodes of pairwise distinct texts gives exactly N   *)
(* emitted nodes, the k-th declared node (from 1) with id k, in both        *)
(* builders.                                                                *)
NodeIdsInOrder(scene, nodes) ==
    /\ Len(scene.nodes) = Len(nodes)
    /\ \A k \in DOMAIN scene.nodes :
          scene.nodes[k].id = k /\ scene.nodes[k].text = nodes[k].text

C2_NodeIds ==
    DistinctTexts(doc.nodes) =>
        /\ pc \in {"tools", "built"} => NodeIdsInOrder(inf_json, doc.nodes)
        /\ pc = "built" => NodeIdsInOrder(tool_json, doc.nodes)

C2_Witness ==
    /\ pc = "built"
    /\ Len(doc.nodes) >= 2
    /\ DistinctTexts(doc.nodes)
    /\ tool_json.present

----------------------------------------------------------------------------
(* C3: for a validated document with N nodes, M connections and G groups,   *)
(* convert numbers the nodes 1..N, the connections N+1..N+M and the groups  *)
(* N+M+1..N+M+G, each connection's fromId/toId are the ids of its from/to   *)
(* nodes, and nextId = N+M+G+1.                                             *)
C3_IdOrder ==
    SceneBuilt =>
        LET N == Len(NodesOf(doc))
            M == Len(ConnsOf(doc))
            G == Len(GroupsOf(doc))
        IN /\ Len(inf_json.nodes) = N
           /\ Len(inf_json.connections) = M
           /\ Len(inf_json.groups) = G
           /\ \A k \in 1..N : inf_json.nodes[k].id = k
           /\ \A k \in 1..M :
                 /\ inf_json.connections[k].id = N + k
                 /\ inf_json.connections[k].fromId =
                        inf_json.nodes[NodeWithText(doc.nodes, doc.connections[k].from.t)].id
                 /\ inf_json.connections[k].toId =
                        inf_json.nodes[NodeWithText(doc.nodes, doc.connections[k].to.t)].id
           /\ \A k \in 1..G : inf_json.groups[k].id = N + M + k
           /\ inf_json.nextId = N + M + G + 1

C3_Witness ==
    /\ pc = "written_out"
    /\ Len(doc.nodes) = 2
    /\ Len(ConnsOf(doc)) = 2
    /\ Len(GroupsOf(doc)) >= 1
    /\ inf_json.connections[2].fromId = 2
    /\ inf_json.connections[2].toId = 1
    /\ inf_json.nextId = 6

----------------------------------------------------------------------------
(* C4: in every scene either builder emits, also when a connection or a     *)
(* group is dropped, all ids are pairwise distinct and nextId is one more   *)
(* than the largest id in the scene.                                        *)
C4_NextIdIsMaxPlusOne ==
    /\ pc \in {"tools", "built"} =>
          IdsDistinct(inf_json) /\ inf_json.nextId = MaxId(inf_json) + 1
    /\ (pc = "built" /\ tool_json.present) =>
          IdsDistinct(tool_json) /\ tool_json.nextId = MaxId(tool_json) + 1

(* C4 as amended: the ids are pairwise distinct and nextId is greater than  *)
(* every id in the scene; it is one past the highest id allocated, which is *)
(* the largest id in the scene for convert_yaml_to_inf, whereas in          *)
(* YAMLToInfConverter.convert every declared group, dropped or not, has     *)
(* consumed an id.                                                          *)
C4_NextIdPastAllocated ==
    /\ pc \in {"tools", "built"} =>
          /\ IdsDistinct(inf_json)
          /\ \A i \in SceneIds(inf_json) : i < inf_json.nextId
          /\ inf_json.nextId = Len(inf_json.nodes) + Len(inf_json.connections)
                                 + Len(GroupsOf(doc)) + 1
    /\ (pc = "built" /\ tool_json.present) =>
          /\ IdsDistinct(tool_json)
          /\ tool_json.nextId = MaxId(tool_json) + 1

C4_Witness ==
    /\ pc = "built"
    /\ tool_json.present
    /\ Len(inf_json.connections) = 1
    /\ Len(inf_json.groups) < Len(GroupsOf(doc))
    /\ inf_json.nextId = MaxId(inf_json) + 2

----------------------------------------------------------------------------
(* C5: a document in which two nodes have the same text gets an error from  *)
(* validate_node (the duplicate-text error when the text is a non-blank     *)
(* str), and convert_single_file returns False without calling              *)
(* compute_layout and without writing.                                      *)
SameTextPairs(nodes) ==
    {p \in (DOMAIN nodes) \X (DOMAIN nodes) :
        /\ p[1] < p[2]
        /\ nodes[p[1]].isDict /\ nodes[p[2]].isDict
        /\ nodes[p[1]].text # TAbsent
        /\ nodes[p[1]].text = nodes[p[2]].text}

C5_DuplicateTextRejected ==
    \A p \in SameTextPairs(NodesOf(doc)) :
        /\ pc \in {"read", "validate", "read_failed", "invalid"}
        /\ layout_calls = 0
        /\ ~written
        /\ pc = "invalid" =>
              /\ result = "false"
              /\ HasError("node", p[2] - 1)
              /\ (IsStr(doc.nodes[p[2]].text) /\ ~IsBlank(doc.nodes[p[2]].text))
                    => HasErrorCode("node", p[2] - 1, "text_duplicate")

C5_Witness ==
    /\ pc = "invalid"
    /\ Len(doc.nodes) = 2
    /\ doc.nodes[1].text = A /\ doc.nodes[2].text = A
    /\ errors = << <<"node", 1, "text_duplicate">> >>
    /\ layout_calls = 0 /\ ~written /\ result = "false"

----------------------------------------------------------------------------
(* C6: a connection whose from and to refer to the same node gets an error  *)
(* from validate_connection (the self-connection error when both are strs), *)
(* so the document never validates and is never converted.                  *)

\* The node (1-based index, 0 for none) a reference designates
Referent(ref, nodes) ==
    IF ref.kind = "int"
    THEN IF 0 <= ref.i /\ ref.i < Len(nodes) THEN ref.i + 1 ELSE 0
    ELSE IF ref.kind = "str" /\ \E k \in DOMAIN nodes : nodes[k].text = ref.t
    THEN NodeWithText(nodes, ref.t)
    ELSE 0

SelfConnection(conn, nodes) ==
    /\ conn.isDict
    /\ conn.from.kind # "absent" /\ conn.to.kind # "absent"
    /\ \/ conn.from = conn.to
       \/ Referent(conn.from, nodes) # 0
            /\ Referent(conn.from, nodes) = Referent(conn.to, nodes)

C6_SelfConnectionRejected ==
    \A k \in DOMAIN ConnsOf(doc) :
        SelfConnection(doc.connections[k], doc.nodes) =>
            /\ pc \in {"read", "validate", "read_failed", "invalid"}
            /\ layout_calls = 0
            /\ ~written
            /\ pc = "invalid" =>
                  /\ HasError("connection", k - 1)
                  /\ (doc.connections[k].from.kind = "str" /\ doc.connections[k].to.kind = "str")
                        => HasErrorCode("connection", k - 1, "self_connection")

C6_Witness ==
    /\ pc = "invalid"
    /\ Len(ConnsOf(doc)) = 1
    /\ doc.connections[1].from = StrRef(A) /\ doc.connections[1].to = StrRef(A)
    /\ errors = << <<"connection", 0, "self_connection">> >>

----------------------------------------------------------------------------
(* C7: every connection with the same (from, to) pair as an earlier one     *)
(* gets an error from validate_connection (the duplicate error when both    *)
(* are strs), so a validated document holds no (from, to) pair twice.       *)
SamePairs(conns) ==
    {p \in (DOMAIN conns) \X (DOMAIN conns) :
        /\ p[1] < p[2]
        /\ conns[p[1]].isDict /\ conns[p[2]].isDict
        /\ conns[p[1]].from.kind # "absent" /\ conns[p[1]].to.kind # "absent"
        /\ conns[p[1]].from = conns[p[2]].from
        /\ conns[p[1]].to = conns[p[2]].to}

C7_DuplicateConnectionRejected ==
    \A p \in SamePairs(ConnsOf(doc)) :
        /\ pc \in {"read", "validate", "read_failed", "invalid"}
        /\ pc = "invalid" =>
              /\ HasError("connection", p[2] - 1)
              /\ (doc.connections[p[2]].from.kind = "str"
                    /\ doc.connections[p[2]].to.kind = "str")
                    => HasErrorCode("connection", p[2] - 1, "duplicate")

C7_Witness ==
    /\ pc = "invalid"
    /\ Len(ConnsOf(doc)) = 2
    /\ doc.connections[1].from = StrRef(A) /\ doc.connections[1].to = StrRef(B)
    /\ doc.connections[2].from = StrRef(A) /\ doc.connections[2].to = StrRef(B)
    /\ errors = << <<"connection", 1, "duplicate">> >>

----------------------------------------------------------------------------
(* C8: a group whose nodes list references fewer than 2 resolvable nodes,   *)
(* each referenced existing node counted once, gets an error from           *)
(* validate_group, so the document is not valid.                            *)
ValidNodeTexts(nodes) ==
    {nodes[k].text : k \in {j \in DOMAIN nodes :
        nodes[j].isDict /\ IsStr(nodes[j].text) /\ ~IsBlank(nodes[j].text)}}

ResolvableNodes(group, nodes) ==
    {group.nodes[k].t : k \in {j \in DOMAIN group.nodes :
        group.nodes[j].kind = "str" /\ group.nodes[j].t \in ValidNodeTexts(nodes)}}

C8_SmallGroupRejected ==
    ValidationRan =>
        \A k \in DOMAIN GroupsOf(doc) :
            (/\ doc.groups[k].isDict
             /\ doc.groups[k].nodesKind = "list"
             /\ Cardinality(ResolvableNodes(doc.groups[k], doc.nodes)) < 2)
            => pc = "invalid" /\ HasError("group", k - 1)

----------------------------------------------------------------------------
(* C9: one call of validate reports an error for every defect of the        *)
(* document: a defect of one field is reported whatever other defects the   *)
(* same node, connection or group has.                                      *)
Defect(cond, section, index, code) ==
    IF cond THEN {<<section, index, code>>} ELSE {}

NodeDefects(node, index) ==
    IF ~node.isDict THEN {<<"node", index, "not_dict">>}
    ELSE Defect(node.unk, "node", index, "unknown_key")
         \cup Defect(node.text = TAbsent, "node", index, "text_missing")
         \cup Defect(node.text = TNonStr, "node", index, "text_not_str")
         \cup Defect(IsStr(node.text) /\ IsBlank(node.text), "node", index, "text_empty")
         \cup Defect(node.type = "nonstr", "node", index, "type_not_str")
         \cup Defect(node.type \notin VALID_NODE_TYPES \cup {"absent", "nonstr"},
                     "node", index, "type_invalid")
         \cup Defect(node.align = "nonstr", "node", index, "align_not_str")
         \cup Defect(node.align \notin VALID_ALIGNMENTS \cup {"absent", "nonstr"},
                     "node", index, "align_invalid")
         \cup Defect(node.attr = "nonstr", "node", index, "attr_not_str")
         \cup Defect(node.attr \notin VALID_ATTRS \cup {"absent", "nonstr"},
                     "node", index, "attr_invalid")
         \cup Defect(node.subgraph = "nonstr", "node", index, "subgraph_not_str")

ConnectionDefects(conn, index) ==
    IF ~conn.isDict THEN {<<"connection", index, "not_dict">>}
    ELSE Defect(conn.unk, "connection", index, "unknown_key")
         \cup Defect(conn.from.kind = "absent", "connection", index, "from_missing")
         \cup Defect(conn.from.kind = "int", "connection", index, "from_not_str")
         \cup Defect(conn.to.kind = "absent", "connection", index, "to_missing")
         \cup Defect(conn.to.kind = "int", "connection", index, "to_not_str")
         \cup Defect(conn.directed = "nonbool", "connection", index, "directed_not_bool")

GroupDefects(group, index) ==
    IF ~group.isDict THEN {<<"group", index, "not_dict">>}
    ELSE Defect(group.unk, "group", index, "unknown_key")
         \cup Defect(group.name = "absent", "group", index, "name_missing")
         \cup Defect(group.name = "nonstr", "group", index, "name_not_str")
         \cup Defect(group.nodesKind = "absent", "group", index, "nodes_missing")
         \cup Defect(group.nodesKind \notin {"absent", "list"},
                     "group", index, "nodes_not_list")

Defects(data) ==
    UNION {NodeDefects(NodesOf(data)[k], k - 1) : k \in DOMAIN NodesOf(data)}
    \cup UNION {ConnectionDefects(ConnsOf(data)[k], k - 1) : k \in DOMAIN ConnsOf(data)}
    \cup UNION {GroupDefects(GroupsOf(data)[k], k - 1) : k \in DOMAIN GroupsOf(data)}

C9_EveryDefectReported ==
    ValidationRan => Defects(doc) \subseteq Range(errors)

----------------------------------------------------------------------------
(* C10: in tools/converter.py an in-range integer index resolves to the     *)
(* same node id as the text of the node at that index, and                  *)
(* create_inf_connection, create_inf_group and so convert_yaml_to_inf       *)
(* return the same result for the two forms of reference.                   *)
Textual(ref, nodes_yaml) ==
    IF ref.kind = "int" /\ 0 <= ref.i /\ ref.i < Len(nodes_yaml)
    THEN StrRef(TextOf(nodes_yaml[ref.i + 1]))
    ELSE ref

TextualConn(conn, nodes_yaml) ==
    [conn EXCEPT !.from = Textual(@, nodes_yaml), !.to = Textual(@, nodes_yaml)]

TextualGroup(group, nodes_yaml) ==
    [group EXCEPT !.nodes = [k \in DOMAIN @ |-> Textual(@[k], nodes_yaml)]]

TextualDoc(data) ==
    [data EXCEPT !.connections = [k \in DOMAIN @ |-> TextualConn(@[k], data.nodes)],
                 !.groups = [k \in DOMAIN @ |-> TextualGroup(@[k], data.nodes)]]

UsesIndex(data) ==
    \/ \E k \in DOMAIN data.connections :
          TextualConn(data.connections[k], data.nodes) # data.connections[k]
    \/ \E k \in DOMAIN data.groups :
          TextualGroup(data.groups[k], data.nodes) # data.groups[k]

C10_IndexSameAsText ==
    pc = "built" =>
        LET nodes_yaml == NodesOf(doc)
            node_map == tool_nodes(1, nodes_yaml, <<>>, <<>>).map
        IN /\ \A i \in 0 .. Len(nodes_yaml) - 1 :
                /\ resolve_node_id(IntRef(i), node_map, nodes_yaml) # 0
                /\ resolve_node_id(IntRef(i), node_map, nodes_yaml)
                      = resolve_node_id(StrRef(TextOf(nodes_yaml[i + 1])), node_map, nodes_yaml)
           /\ \A k \in DOMAIN doc.connections : \A id \in 1 .. 4 :
                create_inf_connection(id, doc.connections[k], node_map, nodes_yaml)
                  = create_inf_connection(id, TextualConn(doc.connections[k], nodes_yaml),
                                          node_map, nodes_yaml)
           /\ \A k \in DOMAIN doc.groups : \A id \in 1 .. 4 :
                create_inf_group(id, doc.groups[k], node_map, nodes_yaml)
                  = create_inf_group(id, TextualGroup(doc.groups[k], nodes_yaml),
                                     node_map, nodes_yaml)
           /\ tool_json = convert_yaml_to_inf(TextualDoc(doc))

C10_Witness ==
    /\ pc = "built"
    /\ UsesIndex(doc)
    /\ Len(doc.nodes) = 2
    /\ Len(doc.connections) = 1
    /\ doc.connections[1].from = IntRef(0) /\ doc.connections[1].to = StrRef(B)
    /\ tool_json.present
    /\ Len(tool_json.connections) = 1
    /\ tool_json.connections[1].fromId = 1 /\ tool_json.connections[1].toId = 2

----------------------------------------------------------------------------
(* C11: a connection whose from or to is an in-range integer index into the *)
(* node list, and a group with a member given as an in-range integer index, *)
(* gets no error from validate_connection / validate_group, and the scene   *)
(* built from the document holds the connection.                            *)
ByIndex(ref, nodes) == ref.kind = "int" /\ Referent(ref, nodes) # 0

IndexedConnection(conn, nodes) ==
    /\ conn.isDict /\ ~conn.unk /\ conn.directed # "nonbool"
    /\ Referent(conn.from, nodes) # 0 /\ Referent(conn.to, nodes) # 0
    /\ Referent(conn.from, nodes) # Referent(conn.to, nodes)
    /\ ByIndex(conn.from, nodes) \/ ByIndex(conn.to, nodes)

IndexedGroup(group, nodes) ==
    /\ group.isDict /\ ~group.unk /\ group.name = "g" /\ group.nodesKind = "list"
    /\ Len(group.nodes) >= 2
    /\ \A k \in DOMAIN group.nodes : Referent(group.nodes[k], nodes) # 0
    /\ \E k \in DOMAIN group.nodes : ByIndex(group.nodes[k], nodes)

C11_IndexAccepted ==
    ValidationRan =>
        /\ \A k \in DOMAIN ConnsOf(doc) :
              IndexedConnection(doc.connections[k], doc.nodes) =>
                  /\ ~HasError("connection", k - 1)
                  /\ SceneBuilt =>
                        \E j \in DOMAIN inf_json.connections :
                            /\ inf_json.connections[j].fromId
                                 = Referent(doc.connections[k].from, doc.nodes)
                            /\ inf_json.connections[j].toId
                                 = Referent(doc.connections[k].to, doc.nodes)
        /\ \A k \in DOMAIN GroupsOf(doc) :
              IndexedGroup(doc.groups[k], doc.nodes) => ~HasError("group", k - 1)

----------------------------------------------------------------------------
(* C12: at the builder stage a group is emitted with nodeIds equal to the   *)
(* ids of its resolved references in their original order, and is dropped   *)
(* only when no reference resolves; a connection is emitted iff both of its *)
(* endpoints resolve. A text resolves when a node has it; an integer        *)
(* resolves in tools/converter.py when it is an index into the node list    *)
(* and never in YAMLToInfConverter.                                         *)
HasText(nodes, t) == \E k \in DOMAIN nodes : TextOf(nodes[k]) = t

\* The id the builders give the node a text designates: that of the last
\* node with the text
IdOfText(nodes, t) == SetMax({k \in DOMAIN nodes : TextOf(nodes[k]) = t})

Resolves(ref, nodes, byIndex) ==
    \/ ref.kind = "str" /\ HasText(nodes, ref.t)
    \/ byIndex /\ ref.kind = "int" /\ 0 <= ref.i /\ ref.i < Len(nodes)

ResolvedId(ref, nodes) ==
    IF ref.kind = "int" THEN IdOfText(nodes, TextOf(nodes[ref.i + 1]))
    ELSE IdOfText(nodes, ref.t)

RECURSIVE KeptIds(_, _, _)
KeptIds(refs, nodes, byIndex) ==
    IF refs = <<>> THEN <<>>
    ELSE (IF Resolves(Head(refs), nodes, byIndex)
          THEN <<ResolvedId(Head(refs), nodes)>> ELSE <<>>)
         \o KeptIds(Tail(refs), nodes, byIndex)

\* The nodeIds of the groups a builder is to emit, in order
RECURSIVE ExpectedGroups(_, _, _)
ExpectedGroups(groups, nodes, byIndex) ==
    IF groups = <<>> THEN <<>>
    ELSE (IF KeptIds(GroupRefs(Head(groups)), nodes, byIndex) # <<>>
          THEN <<KeptIds(GroupRefs(Head(groups)), nodes, byIndex)>> ELSE <<>>)
         \o ExpectedGroups(Tail(groups), nodes, byIndex)

\* The <<fromId, toId>> of the connections a builder is to emit, in order
RECURSIVE ExpectedConnections(_, _, _)
ExpectedConnections(conns, nodes, byIndex) ==
    IF conns = <<>> THEN <<>>
    ELSE (IF Resolves(Head(conns).from, nodes, byIndex)
               /\ Resolves(Head(conns).to, nodes, byIndex)
          THEN << <<ResolvedId(Head(conns).from, nodes), ResolvedId(Head(conns).to, nodes)>> >>
          ELSE <<>>)
         \o ExpectedConnections(Tail(conns), nodes, byIndex)

EmittedGroups(scene) == [j \in DOMAIN scene.groups |-> scene.groups[j].nodeIds]

EmittedConnections(scene) ==
    [j \in DOMAIN scene.connections |->
        <<scene.connections[j].fromId, scene.connections[j].toId>>]

C12_ResolvedSubsetKept ==
    /\ pc \in {"tools", "built"} =>
          /\ EmittedGroups(inf_json) = ExpectedGroups(GroupsOf(doc), NodesOf(doc), FALSE)
          /\ EmittedConnections(inf_json)
               = ExpectedConnections(ConnsOf(doc), NodesOf(doc), FALSE)
    /\ (pc = "built" /\ tool_json.present) =>
          /\ EmittedGroups(tool_json) = ExpectedGroups(GroupsOf(doc), NodesOf(doc), TRUE)
          /\ EmittedConnections(tool_json)
               = ExpectedConnections(ConnsOf(doc), NodesOf(doc), TRUE)

C12_Witness ==
    /\ pc = "built"
    /\ Len(doc.nodes) = 2
    /\ Len(GroupsOf(doc)) = 1
    /\ doc.groups[1].nodes = <<StrRef(Unknown), StrRef(A)>>
    /\ EmittedGroups(inf_json) = << <<1>> >>
    /\ EmittedGroups(tool_json) = << <<1>> >>
    /\ doc.nodes[1].text = A /\ doc.nodes[2].text = B

----------------------------------------------------------------------------
(* C13: convert_single_file runs read, validate, layout, assemble, write in *)
(* that order: layout runs only after a validation without errors, the      *)
(* output is written only after layout succeeded, a failed read, validation *)
(* or layout returns False with no later stage run and nothing written, and *)
(* in validate-only mode layout and write never run.                        *)
StageOrder ==
    {<<"read", "validate">>, <<"read", "read_failed">>,
     <<"validate", "invalid">>, <<"validate", "validated">>, <<"validate", "layout">>,
     <<"layout", "convert">>, <<"layout", "layout_failed">>,
     <<"convert", "write">>,
     <<"write", "written_out">>, <<"write", "write_failed">>}

StagesInOrder ==
    /\ layout_calls > 0 => ValidationRan /\ errors = <<>> /\ ~validate_only
    /\ pc \in {"convert", "write", "written_out", "write_failed"} =>
          layout_calls = 1 /\ DOMAIN node_positions = LayoutTexts(doc.nodes)
    /\ inf_json.present => pc \in {"write", "written_out", "write_failed"}
    /\ written => pc = "written_out" /\ inf_json.present /\ result = "true"
    /\ pc \in {"read_failed", "invalid", "layout_failed"} =>
          result = "false" /\ ~written /\ ~inf_json.present
    /\ pc \in {"read_failed", "invalid"} => layout_calls = 0
    /\ pc = "read_failed" => errors = <<>> /\ node_texts = {}
    /\ pc = "invalid" => errors # <<>>
    /\ validate_only => layout_calls = 0 /\ ~written /\ ~inf_json.present

StageStep == <<pc, pc'>> \in StageOrder

C13_StageOrder ==
    /\ []StagesInOrder
    /\ [][StageStep]_vars

C13_Witness ==
    /\ pc = "written_out"
    /\ written
    /\ layout_calls = 1
    /\ errors = <<>>
    /\ Len(doc.nodes) = 2
    /\ Len(inf_json.nodes) = 2

----------------------------------------------------------------------------
(* C14: in batch mode every discovered document is attempted whatever       *)
(* happened to the earlier ones, no failure of one document ends the batch, *)
(* and the success count is the number of documents converted.              *)
Converted(b) ==
    {k \in Range(b.yaml_files) : b.tree[k].fate = "written_out"}

C14_BatchAttemptsAll ==
    (batch.tool # "none" /\ batch.phase = "ended") =>
        /\ batch.attempted = batch.yaml_files
        /\ batch.success_count = Cardinality(Converted(batch))

----------------------------------------------------------------------------
(* C15: batch mode attempts every .yaml file of the directory and of its    *)
(* nested subdirectories exactly once.                                      *)
C15_BatchFindsNested ==
    (batch.tool # "none" /\ batch.phase # "discover") =>
        /\ Range(batch.yaml_files) = {k \in DOMAIN batch.tree : batch.tree[k].yaml}
        /\ Len(batch.yaml_files) = Cardinality(Range(batch.yaml_files))
        /\ \A k \in DOMAIN batch.attempted : batch.attempted[k] = batch.yaml_files[k]

----------------------------------------------------------------------------
(* C16: convert called twice with the same document on the same converter   *)
(* and layout engine gives two identical scenes: the same node, connection  *)
(* and group ids, the same nextId, the same x and y of every node and the   *)
(* same canvasWidth and canvasHeight.                                       *)
C16_ConvertIdempotent ==
    (again.made /\ again.call = "convert") => again.second = again.first

----------------------------------------------------------------------------
(* C17: validating the same document twice gives the same validity result,  *)
(* the same errors and the same warnings both times, also when the same     *)
(* YAMLValidator instance makes both calls.                                 *)
C17_ValidateTwiceSame ==
    (again.made /\ again.call = "validate") => again.second = again.first

----------------------------------------------------------------------------
(* C18: table size estimation is monotonic. When the text of one cell is    *)
(* replaced by a text whose longest line is at least as long, the width of  *)
(* the cell's column does not decrease; when it is replaced by a text with  *)
(* more lines, or with as many lines and a longest line at least as long,   *)
(* the height of its row does not decrease. Nothing else changes: the       *)
(* number of columns and rows, the other columns and the other rows stay,   *)
(* and the new width and height of a measured cell are the old ones or what *)
(* the new text requires, whichever is larger.                              *)
LongestLine(text) == SetMax(Range(text))

RequiredWidth(text) ==
    IF NonEmpty(text) THEN (84 * LongestLine(text) + 200) \div 10 ELSE 40

RequiredHeight(text) ==
    IF NonEmpty(text) THEN Len(text) * TABLE_LINE_HEIGHT + 20 ELSE 30

Edited == measure.op = "table" /\ measure.phase = "edited"

OldText == measure.before.cells[measure.at[1]][measure.at[2]]
NewText == measure.cells[measure.at[1]][measure.at[2]]

Longer    == LongestLine(NewText) >= LongestLine(OldText)
MoreLines == \/ Len(NewText) > Len(OldText)
             \/ Len(NewText) = Len(OldText) /\ Longer

C18_TableMonotonic ==
    Edited =>
        LET row == measure.at[1]
            col == measure.at[2]
            w0  == measure.before.dims[1]
            h0  == measure.before.dims[2]
            w1  == measure.dims[1]
            h1  == measure.dims[2]
            measured == measure.cells[1] # <<>> /\ col <= Len(measure.cells[1])
        IN /\ DOMAIN w1 = DOMAIN w0
           /\ DOMAIN h1 = DOMAIN h0
           /\ \A c \in DOMAIN w1 : (c # col \/ ~measured) => w1[c] = w0[c]
           /\ \A r \in DOMAIN h1 : (r # row \/ ~measured) => h1[r] = h0[r]
           /\ (measured /\ Longer) => w1[col] = Max2(w0[col], RequiredWidth(NewText))
           /\ (measured /\ MoreLines) => h1[row] = Max2(h0[row], RequiredHeight(NewText))

C18_Witness ==
    /\ Edited
    /\ measure.cells[1] # <<>> /\ measure.at[2] <= Len(measure.cells[1])
    /\ Len(measure.cells) > 1
    /\ Len(NewText) > Len(OldText)
    /\ Longer /\ MoreLines
    /\ measure.dims[1][measure.at[2]] > measure.before.dims[1][measure.at[2]]
    /\ measure.dims[2][measure.at[1]] > measure.before.dims[2][measure.at[1]]

----------------------------------------------------------------------------
(* C19: for a diamond node the size function returns a width and a height   *)
(* that are equal, both max(minDiamondSize, 1.5 * max(maxLineLength *       *)
(* charWidth, lineCount * lineHeight)), for every text.                     *)
Measured(op, type) ==
    measure.op = op /\ measure.phase = "measured" /\ measure.type = type

C19_DiamondSquare ==
    /\ Measured("node", "diamond") =>
         LET size == Max2(120, (3 * Max2(LongestLine(measure.text) * CHAR_WIDTH,
                                         Len(measure.text) * LINE_HEIGHT)) \div 2)
         IN measure.size = <<size, size>>
    /\ Measured("text", "diamond") =>
         LET size == Max2(DIAMOND_MIN_SIZE,
                          (3 * Max2(LongestLine(measure.text) * CHAR_WIDTH,
                                    Len(measure.text) * GV_LINE_HEIGHT)) \div 2)
         IN measure.size = <<size, size>>

----------------------------------------------------------------------------
(* C20: for a code node calculate_node_size gives                           *)
(* width = max(minCodeWidth, maxLineLength * charWidth + 2 * padding) and   *)
(* height = max(minCodeHeight, lineCount * lineHeight + padding), with the  *)
(* padding of the rectangle formula.                                        *)
RectPadding == 20

C20_CodeSize ==
    Measured("node", "code") =>
        measure.size = <<Max2(200, LongestLine(measure.text) * CHAR_WIDTH + 2 * RectPadding),
                       Max2(100, Len(measure.text) * LINE_HEIGHT + RectPadding)>>

----------------------------------------------------------------------------
(* C21: after compute_layout every banner node (attr title or intro) has a  *)
(* stored width of max(width of the widest regular node, 400) and its own   *)
(* estimated height; every regular node has its own estimated width and     *)
(* height.                                                                  *)
LayoutRan == layout_calls > 0

BannerIdx(nodes) == {k \in DOMAIN nodes : nodes[k].attr \in {"title", "intro"}}

WidestRegular(nodes) ==
    SetMax({0} \cup {calculate_node_size(nodes[k])[1] : k \in RegularIdx(nodes)})

C21_BannerWidth ==
    LayoutRan =>
        /\ \A k \in BannerIdx(doc.nodes) :
             /\ doc.nodes[k].text \in DOMAIN node_sizes
             /\ node_sizes[doc.nodes[k].text] =
                  <<Max2(WidestRegular(doc.nodes), 400), calculate_node_size(doc.nodes[k])[2]>>
        /\ \A k \in RegularIdx(doc.nodes) :
             /\ doc.nodes[k].text \in DOMAIN node_sizes
             /\ node_sizes[doc.nodes[k].text] = calculate_node_size(doc.nodes[k])

----------------------------------------------------------------------------
(* C26: compute_layout adds exactly the invisible ordering edges            *)
(* title->intro and intro->first regular node when the document has a       *)
(* title, an intro and a regular node, the one edge banner->first regular   *)
(* node when it has one kind of banner only, and none without a banner; no  *)
(* invisible edge is among the connections of the emitted scene, each of    *)
(* which is a connection of the document.                                   *)
Titles(nodes)   == AttrIdx(nodes, "title")
Intros(nodes)   == AttrIdx(nodes, "intro")
Regulars(nodes) == DOMAIN nodes \ BannerIdx(nodes)

OrderingEdgesAsClaimed(nodes, invisible) ==
    /\ (Titles(nodes) # {} /\ Intros(nodes) # {} /\ Regulars(nodes) # {}) =>
          \E t \in Titles(nodes), i \in Intros(nodes) :
              invisible = {<<t, i>>, <<i, SetMin(Regulars(nodes))>>}
    /\ (Titles(nodes) # {} /\ Intros(nodes) = {} /\ Regulars(nodes) # {}) =>
          \E t \in Titles(nodes) : invisible = {<<t, SetMin(Regulars(nodes))>>}
    /\ (Titles(nodes) = {} /\ Intros(nodes) # {} /\ Regulars(nodes) # {}) =>
          \E i \in Intros(nodes) : invisible = {<<i, SetMin(Regulars(nodes))>>}
    /\ BannerIdx(nodes) = {} => invisible = {}

FromDocument(e) ==
    \E c \in Range(ConnsOf(doc)) :
        /\ InMap(c.from, node_id_map) /\ InMap(c.to, node_id_map)
        /\ e.fromId = node_id_map[c.from.t]
        /\ e.toId = node_id_map[c.to.t]

C26_OrderingEdges ==
    /\ LayoutRan => OrderingEdgesAsClaimed(doc.nodes, layout_graph.invisible)
    /\ SceneBuilt =>
          /\ Len(inf_json.connections) <= Len(ConnsOf(doc))
          /\ \A k \in DOMAIN inf_json.connections : FromDocument(inf_json.connections[k])

C26_Witness ==
    /\ SceneBuilt
    /\ Titles(doc.nodes) # {} /\ Intros(doc.nodes) # {} /\ Regulars(doc.nodes) # {}
    /\ Cardinality(layout_graph.invisible) = 2
    /\ inf_json.connections = <<>>

----------------------------------------------------------------------------
(* C28: for every document that passes validation, after compute_layout     *)
(* returned True every node of the document has its own entry in node_sizes *)
(* and in node_positions, so that convert_node never uses the default size  *)
(* or the default position.                                                 *)
LayoutSucceeded == pc \in {"convert", "write", "written_out", "write_failed"}

C28_EveryNodeLaidOut ==
    (LayoutSucceeded /\ errors = <<>>) =>
        \A k \in DOMAIN doc.nodes :
            /\ doc.nodes[k].text \in DOMAIN node_sizes
            /\ doc.nodes[k].text \in DOMAIN node_positions

----------------------------------------------------------------------------
(* C29: banner widening never shrinks a node: after compute_layout the      *)
(* stored width of a title or intro node is not smaller than the width      *)
(* calculate_node_size estimated for its own text.                          *)
C29_BannerNotShrunk ==
    LayoutRan =>
        \A k \in BannerIdx(doc.nodes) :
            doc.nodes[k].text \in DOMAIN node_sizes =>
                node_sizes[doc.nodes[k].text][1] >= calculate_node_size(doc.nodes[k])[1]

----------------------------------------------------------------------------
(* C22: after normalize_positions the smallest left edge and the smallest   *)
(* top edge over all nodes are at least the padding margin of 100 pixels,   *)
(* and exactly 100 when the smallest edge before the shift was below 100;   *)
(* every node is shifted by the same offset, so the horizontal distances    *)
(* between the nodes are unchanged. Positions are in half pixels.           *)
Normalized == measure.op = "positions" /\ measure.phase = "normalized"

SizeIn(sizes, t) == Get(sizes, t, <<DEFAULT_WIDTH, DEFAULT_HEIGHT>>)

\* Twice the smallest left (axis 1) or top (axis 2) edge
MinEdge(pos, sizes, axis) ==
    SetMin({pos[t][axis] - SizeIn(sizes, t)[axis] : t \in DOMAIN pos})

\* Twice the largest bottom edge
MaxBottom(pos, sizes) ==
    SetMax({pos[t][2] + SizeIn(sizes, t)[2] : t \in DOMAIN pos})

\* The positions after the flip of the y axis, before the shift
Flipped(pos, sizes) ==
    [t \in DOMAIN pos |->
        <<pos[t][1], MaxBottom(pos, sizes) + MinEdge(pos, sizes, 2) - pos[t][2]>>]

C22_NormalizedMargins ==
    Normalized =>
        LET before == Flipped(measure.pos, measure.sizes)
            after  == measure.out
            sizes  == measure.sizes
        IN /\ DOMAIN after = DOMAIN measure.pos
           /\ \A axis \in {1, 2} :
                /\ MinEdge(after, sizes, axis) >= 2 * PADDING
                /\ MinEdge(before, sizes, axis) < 2 * PADDING =>
                      MinEdge(after, sizes, axis) = 2 * PADDING
                /\ \E offset \in {0, 2 * PADDING - MinEdge(before, sizes, axis)} :
                      \A t \in DOMAIN after : after[t][axis] = before[t][axis] + offset
           /\ \A t, u \in DOMAIN after :
                after[t][1] - after[u][1] = measure.pos[t][1] - measure.pos[u][1]

C22_Witness ==
    /\ Normalized
    /\ Cardinality(DOMAIN measure.pos) = 2
    /\ MinEdge(Flipped(measure.pos, measure.sizes), measure.sizes, 1) < 2 * PADDING
    /\ MinEdge(Flipped(measure.pos, measure.sizes), measure.sizes, 2) < 2 * PADDING
    /\ MinEdge(measure.out, measure.sizes, 1) = 2 * PADDING
    /\ MinEdge(measure.out, measure.sizes, 2) = 2 * PADDING
    /\ measure.out[A][1] # measure.out[B][1]

----------------------------------------------------------------------------
(* C23: a node's subgraph reference is in the output scene only when it     *)
(* resolves to an existing nested document, and then it is that relative    *)
(* path with only its final .yaml extension replaced by .json; a reference  *)
(* to a missing file is not emitted.                                        *)
SubgraphEmitted == measure.op = "subgraph" /\ measure.phase = "emitted"

\* The existing documents a reference may stand for: the path itself, or
\* the document of that name in the directory or next to it
Referents(files, hint) ==
    {hint, hint \o <<"/">> \o hint \o <<".yaml">>, hint \o <<".yaml">>} \cap files

FinalExtensionSwapped(path) ==
    IF EndsWithYaml(path) THEN [path EXCEPT ![Len(path)] = ".json"] ELSE path

C23_SubgraphResolved ==
    SubgraphEmitted =>
        /\ measure.out # NoPath =>
              \E f \in Referents(measure.files, measure.hint) :
                  measure.out = FinalExtensionSwapped(f)
        /\ Referents(measure.files, measure.hint) = {} => measure.out = NoPath

----------------------------------------------------------------------------
(* C24: when tools/yaml2inf.py is run with --validate no JSON file is       *)
(* written for any input document.                                          *)
C24_ValidateWritesNothing ==
    (batch.tool = "tools" /\ batch.validate) => batch.written = {}

----------------------------------------------------------------------------
(* C25: in tools/graphviz.py, for any positions the layout engine returns,  *)
(* the bounding box of every node apply_layout emits lies inside            *)
(* [0, canvasWidth] x [0, canvasHeight].                                    *)
AppliedBox(n) ==
    IF n.type = "circle"
    THEN [left |-> n.x - n.radius, right |-> n.x + n.radius,
          top |-> n.y - n.radius, bottom |-> n.y + n.radius]
    ELSE [left |-> n.x, right |-> n.x + n.width, top |-> n.y, bottom |-> n.y + n.height]

C25_AppliedBoxesInCanvas ==
    (measure.op = "apply" /\ measure.phase = "applied") =>
        \A k \in DOMAIN measure.out.nodes :
            LET box == AppliedBox(measure.out.nodes[k])
            IN /\ 0 <= box.left /\ box.right <= measure.out.canvasWidth
               /\ 0 <= box.top /\ box.bottom <= measure.out.canvasHeight

----------------------------------------------------------------------------
(* C27: for every table node convert_node emits from a markdown table that  *)
(* passes validate_table, the table fields agree: colWidths has cols        *)
(* entries, rowHeights has rows entries, cells has rows rows of cols cells  *)
(* each, and the layout width and height of the node are the sums of        *)
(* colWidths and of rowHeights.                                             *)
C27_TableFieldsAgree ==
    (measure.op = "tablenode" /\ measure.phase = "emitted" /\ measure.valid) =>
        LET n == measure.out
        IN /\ Len(n.colWidths) = n.cols
           /\ Len(n.rowHeights) = n.rows
           /\ Len(n.cells) = n.rows
           /\ \A r \in DOMAIN n.cells : Len(n.cells[r]) = n.cols
           /\ measure.size = <<SeqSum(n.colWidths), SeqSum(n.rowHeights)>>

----------------------------------------------------------------------------
(* C30: in every scene a builder emits, for validated and unvalidated       *)
(* documents alike and also when node texts repeat, every fromId, toId and  *)
(* nodeIds member is the id of a node of the same scene, and it is the id   *)
(* of the very node the reference designates: the node at the index for an  *)
(* integer reference, a node with the text for a text reference.            *)
NodeIdsOf(scene) == {scene.nodes[k].id : k \in DOMAIN scene.nodes}

IdsEmitted(scene) ==
    /\ \A j \in DOMAIN scene.connections :
          {scene.connections[j].fromId, scene.connections[j].toId} \subseteq NodeIdsOf(scene)
    /\ \A j \in DOMAIN scene.groups : \A m \in DOMAIN scene.groups[j].nodeIds :
          scene.groups[j].nodeIds[m] \in NodeIdsOf(scene)

\* The node of the scene with this id is the one the reference designates
Denotes(ref, id, scene) ==
    \E k \in DOMAIN scene.nodes :
        /\ scene.nodes[k].id = id
        /\ ref.kind = "int" => k = ref.i + 1
        /\ ref.kind = "str" => scene.nodes[k].text = ref.t

\* The connections, groups and group references of the document that the
\* builder keeps, in order
KeptConns(byIndex) ==
    SelectSeq(ConnsOf(doc), LAMBDA c : /\ Resolves(c.from, NodesOf(doc), byIndex)
                                       /\ Resolves(c.to, NodesOf(doc), byIndex))

KeptRefs(group, byIndex) ==
    SelectSeq(GroupRefs(group), LAMBDA r : Resolves(r, NodesOf(doc), byIndex))

KeptGroups(byIndex) ==
    SelectSeq(GroupsOf(doc), LAMBDA g : KeptRefs(g, byIndex) # <<>>)

RefersToItself(scene, byIndex) ==
    /\ Len(scene.connections) = Len(KeptConns(byIndex))
    /\ \A j \in DOMAIN scene.connections :
          /\ Denotes(KeptConns(byIndex)[j].from, scene.connections[j].fromId, scene)
          /\ Denotes(KeptConns(byIndex)[j].to, scene.connections[j].toId, scene)
    /\ Len(scene.groups) = Len(KeptGroups(byIndex))
    /\ \A j \in DOMAIN scene.groups :
          /\ Len(scene.groups[j].nodeIds) = Len(KeptRefs(KeptGroups(byIndex)[j], byIndex))
          /\ \A m \in DOMAIN scene.groups[j].nodeIds :
                Denotes(KeptRefs(KeptGroups(byIndex)[j], byIndex)[m],
                        scene.groups[j].nodeIds[m], scene)

C30_ReferentialIntegrity ==
    /\ pc \in {"tools", "built"} => IdsEmitted(inf_json) /\ RefersToItself(inf_json, FALSE)
    /\ (pc = "built" /\ tool_json.present) =>
          IdsEmitted(tool_json) /\ RefersToItself(tool_json, TRUE)

====
